---- MODULE Spec2Model ----
(***************************************************************************)
(* Content ingestion and analysis pipeline of llm-notebook                 *)
(* (apps/api/app): note creation with rate limit and URL normalization,    *)
(* the per-note analysis job run as a background task, soft delete and     *)
(* admin restore, the LLM client's request loop, and the aggregation       *)
(* refresh of the registered feed sources.                                 *)
(*                                                                         *)
(* Python values are represented as follows.  None is <<>> and a present   *)
(* value v is <<v>>.  A str is a record: an error message is               *)
(* [txt, len, pad, hint] (its text, the length of the stripped text, the   *)
(* amount of surrounding whitespace, the retry keyword it contains or "");  *)
(* a URL is the record of its urlsplit() components.                       *)
(***************************************************************************)
EXTENDS Integers, Sequences, FiniteSets, TLC

VARIABLES
    notes,      \* table notes: sequence of rows, the row id is the index
    summaries,  \* table note_ai_summaries, in insertion order
    tasks,      \* background tasks run_note_analysis_job, one record each
    reqs,       \* HTTP requests being handled (create / reanalyze)
    redis,      \* rate limit counters: key -> [count, ttl]
    fetched,    \* URLs an outbound source fetch was issued for
    passed,     \* per counter key and window: requests let past the rate limit
    served,     \* number of requests accepted so far (bounds the model)
    ended,      \* how the run_analysis_job call that returned last ended
    llm,        \* one LLMClient._request_with_retry call: its request loop
    sources,    \* table source_creators, the row id is the index
    items,      \* table aggregate_items, the row id is the index
    feeds,      \* feed URLs an outbound feed fetch was issued for
    agg,        \* one AggregationService._refresh_sources call
    job,        \* one refresh job: its record in Redis and run_aggregation_refresh_job
    call        \* the last call of a function examined by itself: arguments and result

vars == <<notes, summaries, tasks, reqs, redis, fetched, passed, served, ended, llm,
          sources, items, feeds, agg, job, call>>

(* the variables of the aggregation *)
aggregation == <<sources, items, feeds, agg>>

(* the variables outside the note pipeline *)
others == <<llm, aggregation, job, call>>

----------------------------------------------------------------------------
(* Bounds of the model *)

MaxTasks == 3       \* background tasks queued or running at once
MaxInflight == 2    \* HTTP requests handled at once
MaxWindows == 1     \* expiries of one rate limit counter
MaxJobServed == 2   \* requests accepted under Spec
MaxReqServed == 3   \* requests accepted under SpecReq
MaxRetrySetting == 3 \* largest settings.llm_max_retries
MaxFeedEntries == 2 \* entries of one fetched feed
MaxRefreshes == 2   \* aggregation refreshes run
MaxUrlServed == 1   \* requests accepted under SpecUrl

(* Configured settings (app/core/config.py), set small *)
note_create_limit_per_hour == 2
note_reanalyze_limit_per_10m == 1

(* Program constants: the [:500] of _mark_analysis_failed, the [:512] of    *)
(* the titles                                                              *)
MaxErrorLen == 500
MaxTitleLen == 512

None == <<>>
Some(v) == <<v>>

Min(a, b) == IF a < b THEN a ELSE b
Max(a, b) == IF a > b THEN a ELSE b

Users == {"u1", "u2"}

ALLOWED_ANALYSIS_STATUS == {"pending", "running", "succeeded", "failed"}

----------------------------------------------------------------------------
(* Hosts and URLs *)

NameHost(labels, upper) == [kind |-> "name", labels |-> labels, upper |-> upper, octets |-> <<>>]
Ip4Host(a, b, c, d) == [kind |-> "ip4", labels |-> <<>>, upper |-> FALSE, octets |-> <<a, b, c, d>>]
Ip6Host(class) == [kind |-> "ip6", labels |-> <<class>>, upper |-> FALSE, octets |-> <<>>]

(* str.lower() on a host *)
LowerHost(h) == [h EXCEPT !.upper = FALSE]

(* ipaddress.ip_address(host): succeeds on literal addresses only *)
IsIpLiteral(h) == h.kind \in {"ip4", "ip6"}

(* ipaddress.IPv4Address.is_private: the IANA special purpose blocks *)
Ip4IsPrivate(o) ==
    \/ o[1] = 0
    \/ o[1] = 10
    \/ o[1] = 127
    \/ o[1] = 169 /\ o[2] = 254
    \/ o[1] = 172 /\ o[2] >= 16 /\ o[2] <= 31
    \/ o[1] = 192 /\ o[2] = 0 /\ o[3] = 0 /\ o[4] <= 7
    \/ o[1] = 192 /\ o[2] = 0 /\ o[3] = 0 /\ o[4] \in {170, 171}
    \/ o[1] = 192 /\ o[2] = 0 /\ o[3] = 2
    \/ o[1] = 192 /\ o[2] = 168
    \/ o[1] = 198 /\ o[2] \in {18, 19}
    \/ o[1] = 198 /\ o[2] = 51 /\ o[3] = 100
    \/ o[1] = 203 /\ o[2] = 0 /\ o[3] = 113
    \/ o[1] >= 240

Ip4IsLoopback(o) == o[1] = 127
Ip4IsLinkLocal(o) == o[1] = 169 /\ o[2] = 254
Ip4IsMulticast(o) == o[1] >= 224 /\ o[1] <= 239
Ip4IsReserved(o) == o[1] >= 240
Ip4IsUnspecified(o) == o = <<0, 0, 0, 0>>

(* the same attributes of an IPv6 literal, by the block it lies in *)
Ip6Flagged(class) == class \in {"loopback", "unspecified", "link_local", "multicast", "unique_local", "documentation", "reserved"}

(* the ip.is_* disjunction of _ensure_public_host *)
IpIsNonPublic(h) ==
    IF h.kind = "ip4"
    THEN \/ Ip4IsPrivate(h.octets)
         \/ Ip4IsLoopback(h.octets)
         \/ Ip4IsLinkLocal(h.octets)
         \/ Ip4IsMulticast(h.octets)
         \/ Ip4IsReserved(h.octets)
         \/ Ip4IsUnspecified(h.octets)
    ELSE Ip6Flagged(h.labels[1])

(* host == "localhost" or host.endswith(".local"), on the lower-cased host *)
IsLocalName(h) ==
    /\ h.kind = "name"
    /\ \/ h.labels = <<"localhost">>
       \/ Len(h.labels) >= 2 /\ h.labels[Len(h.labels)] = "local"

(* a host check that looks at names only *)
EnsurePublicHostNamesOnly(h) == ~IsLocalName(h)

(* NoteService._ensure_public_host: TRUE when the host is let through *)
EnsurePublicHost(h) ==
    /\ ~IsLocalName(h)
    /\ IsIpLiteral(h) => ~IpIsNonPublic(h)

(* A URL as urllib.parse.urlsplit() sees it.  port: 0 when absent, -1 when *)
(* parsed.port raises ValueError; segs/trail: the path "/" + segments      *)
(* joined by "/", with a trailing "/" when trail (no segment and no trail  *)
(* is the empty path); query: the (key, value) pairs in order.             *)
Url(scheme, cred, host, port, segs, trail, query, frag) ==
    [scheme |-> scheme, cred |-> cred, host |-> host, port |-> port,
     segs |-> segs, trail |-> trail, query |-> query, frag |-> frag]

KV(k, v) == [k |-> k, v |-> v]

DEFAULT_PORTS(scheme) == IF scheme = "http" THEN 80 ELSE IF scheme = "https" THEN 443 ELSE 0

WECHAT_HOST == NameHost(<<"mp", "weixin", "qq", "com">>, FALSE)

YOUTUBE_HOSTS ==
    { NameHost(<<"youtube", "com">>, FALSE), NameHost(<<"www", "youtube", "com">>, FALSE),
      NameHost(<<"m", "youtube", "com">>, FALSE), NameHost(<<"youtu", "be">>, FALSE),
      NameHost(<<"www", "youtu", "be">>, FALSE) }

(* tokens matching YOUTUBE_VIDEO_ID_RE, ^[A-Za-z0-9_-]{6,20}$ *)
ValidVideoIds == {"dQw4w9WgXcQ", "abc_DEF-12"}

(* rules of config/url_blacklist.json, as label sequences *)
BlacklistRules == { <<"douyin", "com">> }

RECURSIVE IsSuffix(_, _)
IsSuffix(suffix, labels) ==
    IF Len(suffix) > Len(labels) THEN FALSE
    ELSE IF Len(suffix) = 0 THEN TRUE
    ELSE /\ suffix[Len(suffix)] = labels[Len(labels)]
         /\ IsSuffix(SubSeq(suffix, 1, Len(suffix) - 1), SubSeq(labels, 1, Len(labels) - 1))

(* url_blacklist.match_blacklisted_host / _domain_matches *)
MatchBlacklistedHost(h) ==
    /\ h.kind = "name"
    /\ \E rule \in BlacklistRules : IsSuffix(rule, h.labels)

(* dict(parse_qsl(query)).get(key, ""): the last pair with that key wins *)
RECURSIVE QueryGet(_, _)
QueryGet(query, key) ==
    IF Len(query) = 0 THEN ""
    ELSE IF query[Len(query)].k = key THEN query[Len(query)].v
    ELSE QueryGet(SubSeq(query, 1, Len(query) - 1), key)

Rejected(detail) == [ok |-> FALSE, detail |-> detail]
Accepted(source_url, normalized, domain) ==
    [ok |-> TRUE, source_url |-> source_url, normalized |-> normalized, domain |-> domain]

(* NoteService._normalize_generic_url *)
NoteNormalizeGenericUrl(parsed, host, port) ==
    Url(parsed.scheme, FALSE, host,
        IF port # 0 /\ port # DEFAULT_PORTS(parsed.scheme) THEN port ELSE 0,
        parsed.segs,
        IF parsed.segs = <<>> THEN TRUE ELSE parsed.trail,
        parsed.query, FALSE)

(* the (key, value) items _normalize_wechat_url keeps, in the fixed order *)
RECURSIVE WechatCanonicalItems(_, _)
WechatCanonicalItems(query, keys) ==
    IF Len(keys) = 0 THEN <<>>
    ELSE LET value == QueryGet(query, keys[1])
             rest == WechatCanonicalItems(query, SubSeq(keys, 2, Len(keys)))
         IN  IF value # "" THEN <<KV(keys[1], value)>> \o rest ELSE rest

(* NoteService._normalize_wechat_url *)
NoteNormalizeWechatUrl(source_url, parsed, port) ==
    IF Len(parsed.segs) >= 2 /\ parsed.segs[1] = "s"
    THEN Accepted(source_url,
                  Url("https", FALSE, WECHAT_HOST, 0, parsed.segs, FALSE, <<>>, FALSE),
                  WECHAT_HOST)
    ELSE IF /\ parsed.segs = <<"s">> /\ ~parsed.trail
            /\ \A key \in {"__biz", "mid", "idx"} : QueryGet(parsed.query, key) # ""
    THEN Accepted(source_url,
                  Url("https", FALSE, WECHAT_HOST, 0, <<"s">>, FALSE,
                      WechatCanonicalItems(parsed.query, <<"__biz", "mid", "idx", "sn">>), FALSE),
                  WECHAT_HOST)
    ELSE Accepted(source_url, NoteNormalizeGenericUrl(parsed, WECHAT_HOST, port), WECHAT_HOST)

YOUTUBE_DOMAIN == NameHost(<<"youtube", "com">>, FALSE)

(* the video id _normalize_youtube_url extracts, "" when there is none *)
YoutubeVideoId(parsed, host) ==
    IF host.labels \in {<<"youtu", "be">>, <<"www", "youtu", "be">>}
    THEN IF Len(parsed.segs) >= 1 THEN parsed.segs[1] ELSE ""
    ELSE IF parsed.segs = <<"watch">> /\ ~parsed.trail
    THEN QueryGet(parsed.query, "v")
    ELSE IF Len(parsed.segs) >= 1 /\ parsed.segs[1] \in {"shorts", "live", "embed"}
            /\ (Len(parsed.segs) >= 2 \/ parsed.trail)
    THEN IF Len(parsed.segs) >= 2 THEN parsed.segs[2] ELSE ""
    ELSE ""

(* NoteService._normalize_youtube_url *)
NoteNormalizeYoutubeUrl(source_url, parsed, port) ==
    LET host == LowerHost(parsed.host)
        video_id == YoutubeVideoId(parsed, host)
    IN  IF video_id \in ValidVideoIds
        THEN Accepted(source_url,
                      Url("https", FALSE, NameHost(<<"www", "youtube", "com">>, FALSE), 0,
                          <<"watch">>, FALSE, <<KV("v", video_id)>>, FALSE),
                      YOUTUBE_DOMAIN)
        ELSE Accepted(source_url, NoteNormalizeGenericUrl(parsed, host, port), YOUTUBE_DOMAIN)

(* NoteService._normalize_source_url *)
NoteNormalizeSourceUrl(raw_url) ==
    LET parsed == raw_url
        host == LowerHost(parsed.host)
    IN  IF parsed.scheme \notin {"http", "https"} THEN Rejected("unsupported_scheme")
        ELSE IF parsed.cred THEN Rejected("invalid_url")
        ELSE IF parsed.port = -1 THEN Rejected("invalid_url")
        ELSE IF host.kind = "empty" THEN Rejected("invalid_url")
        ELSE IF ~EnsurePublicHost(host) THEN Rejected("private_host")
        ELSE IF MatchBlacklistedHost(host) THEN Rejected("unsupported_host")
        ELSE IF host = WECHAT_HOST THEN NoteNormalizeWechatUrl(raw_url, parsed, parsed.port)
        ELSE IF host \in YOUTUBE_HOSTS THEN NoteNormalizeYoutubeUrl(raw_url, parsed, parsed.port)
        ELSE Accepted(raw_url, NoteNormalizeGenericUrl(parsed, host, parsed.port), host)

(* parsed.hostname is None or blank *)
NoHost == [kind |-> "empty", labels |-> <<>>, upper |-> FALSE, octets |-> <<>>]

(* AggregationService._ensure_public_host: TRUE when the host is let       *)
(* through                                                                 *)
AggEnsurePublicHost(h) ==
    /\ ~IsLocalName(h)
    /\ IsIpLiteral(h) => ~IpIsNonPublic(h)

TRACKING_QUERY_KEYS == {"ref", "source", "spm", "from", "fbclid", "gclid"}

(* key.strip().lower(), for the query keys of the model *)
KeyLower(k) ==
    IF k = "UTM_Source" THEN "utm_source"
    ELSE IF k = "Ref" THEN "ref"
    ELSE k

(* normalized_key.startswith("utm_"), for the query keys of the model *)
IsUtmKey(k) == k \in {"utm_source", "utm_medium", "utm_campaign"}

(* a stripping that removes the first tracking parameter only *)
RECURSIVE StripFirstTrackingOnly(_)
StripFirstTrackingOnly(query) ==
    IF Len(query) = 0 THEN <<>>
    ELSE LET key == KeyLower(query[1].k)
         IN  IF key = "" \/ IsUtmKey(key) \/ key \in TRACKING_QUERY_KEYS
             THEN Tail(query)
             ELSE <<query[1]>> \o StripFirstTrackingOnly(Tail(query))

(* AggregationService._strip_tracking_query, on the parsed pairs *)
RECURSIVE StripTrackingQuery(_)
StripTrackingQuery(query) ==
    IF Len(query) = 0 THEN <<>>
    ELSE LET key == KeyLower(query[1].k)
             rest == StripTrackingQuery(Tail(query))
         IN  IF key = "" \/ IsUtmKey(key) \/ key \in TRACKING_QUERY_KEYS
             THEN rest
             ELSE <<query[1]>> \o rest

(* AggregationService._normalize_generic_url *)
AggNormalizeGenericUrl(parsed, host, port) ==
    Url(parsed.scheme, FALSE, host,
        IF port # 0 /\ port # DEFAULT_PORTS(parsed.scheme) THEN port ELSE 0,
        parsed.segs,
        IF parsed.segs = <<>> THEN TRUE ELSE parsed.trail,
        StripTrackingQuery(parsed.query), FALSE)

(* AggregationService._normalize_source_url *)
AggNormalizeSourceUrl(raw_url) ==
    LET parsed == raw_url
        host == LowerHost(parsed.host)
    IN  IF parsed.scheme \notin {"http", "https"} THEN Rejected("unsupported_scheme")
        ELSE IF parsed.cred THEN Rejected("invalid_url")
        ELSE IF parsed.port = -1 THEN Rejected("invalid_url")
        ELSE IF host.kind = "empty" THEN Rejected("invalid_url")
        ELSE IF ~AggEnsurePublicHost(host) THEN Rejected("private_host")
        ELSE Accepted(raw_url, AggNormalizeGenericUrl(parsed, host, parsed.port), host)

(* host == domain or host.endswith("." + domain), label by label: names    *)
(* by their labels, IPv4 literals by their octets, an IPv6 literal (no     *)
(* dot) as a whole                                                         *)
HostEndsWith(host, domain) ==
    /\ host.kind = domain.kind
    /\ IF host.kind = "name" THEN domain.labels # <<>> /\ IsSuffix(domain.labels, host.labels)
       ELSE IF host.kind = "ip4" THEN IsSuffix(domain.octets, host.octets)
       ELSE host.kind = "ip6" /\ host = domain

(* a match that lets every host through *)
DomainMatchesAny(host, source_domain) == TRUE

(* AggregationService._domain_matches *)
DomainMatches(host, source_domain) == HostEndsWith(LowerHost(host), LowerHost(source_domain))

(* last path segments of the model that end in one of SKIP_FILE_SUFFIXES *)
AssetSegments == {"logo.png", "feed.xml"}

(* AggregationService._looks_like_asset_url *)
LooksLikeAssetUrl(url) ==
    /\ url.segs # <<>>
    /\ ~url.trail
    /\ url.segs[Len(url.segs)] \in AssetSegments

(* a feed entry without a link *)
EmptyLink == Url("", FALSE, NoHost, 0, <<>>, FALSE, <<>>, FALSE)

(* source_url.lower().startswith(SKIP_LINK_PREFIXES): "javascript:",       *)
(* "mailto:", "tel:" and "#"                                               *)
IsSkippedLink(link) ==
    \/ link.scheme \in {"javascript", "mailto", "tel"}
    \/ link.scheme = "" /\ link.host = NoHost /\ link.segs = <<>> /\ link.frag

----------------------------------------------------------------------------
(* Strings that matter by their length and content class *)

Msg(txt, len, pad, hint) == [txt |-> txt, len |-> len, pad |-> pad, hint |-> hint]

(* str.strip() *)
Strip(m) == [m EXCEPT !.pad = 0]

(* s[:n] on a stripped string *)
Truncate(m, n) == [m EXCEPT !.len = Min(m.len, n)]

(* truthiness of a str: non-empty *)
NonEmpty(m) == m.len + m.pad > 0

DefaultFailureMessage == Msg("analysis_failed", 4, 0, "")

(* the keywords _is_retryable_message and _is_retryable_error look for;    *)
(* "retry later zh" is the Chinese phrase of the source                    *)
CommonRetryHints ==
    {"timed out", "timeout", "temporarily unavailable", "connection reset", "connection aborted",
     "connection refused", "temporary failure", "try again", "429", "502", "503", "504",
     "rate limit", "overloaded"}

NoteRetryHints == CommonRetryHints \cup {"retry later zh"}

(* NoteService._is_retryable_message: keyword search in the stripped text *)
IsRetryableMessage(m) == m.len > 0 /\ m.hint \in NoteRetryHints

(* NoteService._is_retryable_error_code *)
IsRetryableErrorCode(code) ==
    code \in {"source_unreachable", "llm_timeout", "llm_network_error", "llm_http_error", "llm_request_failed"}

ANALYSIS_STAGE_UNKNOWN == "unknown"
ANALYSIS_STAGE_CONTENT_FETCH == "content_fetch"
ANALYSIS_STAGE_LLM_REQUEST == "llm_request"
ANALYSIS_STAGE_LLM_PARSE == "llm_parse"

(* a classification that knows the codes of the model only *)
ClassifyStageLLMOnly(code) ==
    IF code \in {"invalid_output", "llm_invalid_response"} THEN ANALYSIS_STAGE_LLM_PARSE
    ELSE IF code \in {"llm_not_configured", "llm_http_error", "llm_network_error", "llm_timeout"}
    THEN ANALYSIS_STAGE_LLM_REQUEST
    ELSE ANALYSIS_STAGE_UNKNOWN

(* NoteService._classify_stage_by_error_code *)
ClassifyStageByErrorCode(code) ==
    IF code = "" THEN ANALYSIS_STAGE_UNKNOWN
    ELSE IF code \in {"source_unreachable", "empty_content"} THEN ANALYSIS_STAGE_CONTENT_FETCH
    ELSE IF code \in {"invalid_output", "llm_invalid_response"} THEN ANALYSIS_STAGE_LLM_PARSE
    ELSE IF code \in {"llm_not_configured", "llm_provider_not_supported", "llm_base_url_not_configured",
                      "llm_model_not_configured", "llm_http_error", "llm_network_error",
                      "llm_timeout", "llm_request_failed"} THEN ANALYSIS_STAGE_LLM_REQUEST
    ELSE ANALYSIS_STAGE_UNKNOWN

(* An exception in flight: kind "analysis_error" is AnalysisError(code,    *)
(* message); kind "exception" is any other Exception, str(exc) = message.  *)
NoOutcome == [kind |-> "none", code |-> "", message |-> Msg("", 0, 0, ""), class |-> "",
              title |-> None, tags |-> <<>>]
AnalysisError(code, message) ==
    [kind |-> "analysis_error", code |-> code, message |-> message, class |-> "AnalysisError",
     title |-> None, tags |-> <<>>]
OtherException(class, message) ==
    [kind |-> "exception", code |-> "", message |-> message, class |-> class,
     title |-> None, tags |-> <<>>]
SourceAnalysis(title, tags) ==
    [kind |-> "ok", code |-> "", message |-> Msg("", 0, 0, ""), class |-> "",
     title |-> title, tags |-> tags]

(* NoteService._build_failure_diagnostic; now_delta is datetime.now() minus *)
(* started_at in milliseconds, which a clock step can make negative         *)
BuildFailureDiagnostic(exc, now_delta) ==
    [error_stage |-> IF exc.kind = "analysis_error"
                     THEN ClassifyStageByErrorCode(exc.code)
                     ELSE ANALYSIS_STAGE_UNKNOWN,
     error_class |-> exc.class,
     retryable   |-> IF exc.kind = "analysis_error"
                     THEN IsRetryableErrorCode(exc.code) \/ IsRetryableMessage(exc.message)
                     ELSE IsRetryableMessage(Strip(exc.message)),
     elapsed_ms  |-> Max(0, now_delta)]

----------------------------------------------------------------------------
(* Inputs.  The Chinese messages of the source are written in ASCII, with  *)
(* the length of the original.                                             *)

PublicHost == NameHost(<<"example", "com">>, FALSE)

(* URLs submitted to POST /notes *)
NoteUrls ==
    { Url("https", FALSE, NameHost(<<"example", "com">>, TRUE), 443, <<"post">>, FALSE, <<KV("a", "1")>>, TRUE),
      Url("https", FALSE, PublicHost, 0, <<"post">>, FALSE, <<KV("a", "1")>>, FALSE),
      Url("http", FALSE, Ip4Host(127, 0, 0, 1), 0, <<"internal">>, FALSE, <<>>, FALSE),
      Url("http", FALSE, NameHost(<<"localhost">>, TRUE), 8080, <<>>, FALSE, <<>>, FALSE) }

(* the URLs one user submits while the analysis job is examined *)
JobUrls ==
    { Url("https", FALSE, NameHost(<<"example", "com">>, TRUE), 443, <<"post">>, FALSE, <<KV("a", "1")>>, TRUE),
      Url("http", FALSE, Ip4Host(127, 0, 0, 1), 0, <<"internal">>, FALSE, <<>>, FALSE) }

JobUsers == {"u1"}

(* tags of the create payload, after _normalize_tags *)
PayloadTags == { <<>> }

(* what fetch_source_for_analysis can do: raise, or return (title, content) *)
FetchRaises == [raised |-> TRUE, title |-> None, content |-> FALSE]
FetchEmpty == [raised |-> FALSE, title |-> None, content |-> FALSE]
FetchOk == [raised |-> FALSE, title |-> Some(Msg("fetched title", 13, 0, "")), content |-> TRUE]

FetchResults == { FetchRaises, FetchEmpty, FetchOk }

(* whether settings.llm_api_key is set when _analyze_source reads it *)
ApiKeySettings == BOOLEAN

(* LLMClient.analyze returns an LLMAnalysisResult *)
LLMResult(title, lang, tags, tags_zh, summary) ==
    [kind |-> "result", title |-> title, lang |-> lang, tags |-> tags, tags_zh |-> tags_zh,
     summary |-> summary]

(* LLMClient.analyze raises LLMClientError(code, message) *)
LLMClientError(code, message) == [kind |-> "llm_client_error", code |-> code, message |-> message]

GoodResult == LLMResult(Some(Msg("model title", 11, 0, "")), "en", <<"llm">>, <<"llm_zh">>,
                        Msg("summary", 7, 0, ""))
TaglessResult == LLMResult(None, "en", <<>>, <<>>, Msg("summary", 7, 0, ""))

InvalidOutput == LLMClientError("invalid_output", Msg("model output is not valid", 12, 0, ""))
LLMTimeout == LLMClientError("llm_timeout", Msg("model request timed out, retry later", 14, 0, "retry later zh"))
LLMNetworkError == LLMClientError("llm_network_error", Msg("model network error, retry later", 14, 0, "retry later zh"))

(* the LLMClientError of _request_with_retry for an HTTP status; the       *)
(* message holds the status in digits                                      *)
StatusHint(status) == IF status = 429 THEN "429" ELSE IF status = 502 THEN "502"
                      ELSE IF status = 503 THEN "503" ELSE IF status = 504 THEN "504" ELSE ""
LLMHttpError(status) ==
    LLMClientError("llm_http_error", Msg("model request failed (HTTP)", 18, 0, StatusHint(status)))

(* exceptions that are neither AnalysisError nor LLMClientError *)
LongRuntimeError == OtherException("RuntimeError", Msg("x", 600, 0, ""))
BlankValueError == OtherException("ValueError", Msg("", 0, 2, ""))

(* what one LLMClient.analyze call can do *)
LLMReplies == { GoodResult, TaglessResult, InvalidOutput, LLMTimeout, LongRuntimeError, BlankValueError }

(* datetime.now() - started_at in ms, as _elapsed_ms may observe it *)
ClockDeltas == {-3, 1234}

----------------------------------------------------------------------------
(* Rows, tasks, requests *)

NoteRow(user, source_url, normalized, domain, tags) ==
    [user |-> user, source_url |-> source_url, normalized |-> normalized, domain |-> domain,
     title |-> None, tags |-> tags, status |-> "pending", error |-> None, deleted |-> FALSE]

NoteIds == 1..Len(notes)

(* NoteRepository.get_by_id: the row unless soft deleted *)
GetById(note_id) == IF note_id \in NoteIds /\ ~notes[note_id].deleted THEN Some(note_id) ELSE None

(* NoteRepository.get_by_id_for_user *)
GetByIdForUser(note_id, user) ==
    IF note_id \in NoteIds /\ notes[note_id].user = user /\ ~notes[note_id].deleted
    THEN Some(note_id) ELSE None

(* NoteRepository.get_by_user_and_normalized_url: ids of the matching rows *)
GetByUserAndNormalizedUrl(user, normalized) ==
    { n \in NoteIds : notes[n].user = user /\ notes[n].normalized = normalized /\ ~notes[n].deleted }

(* a table without the unique index *)
UniqueViolationNever(user, normalized, except) == FALSE

(* unique index uq_notes_user_url_active (user_id, source_url_normalized)  *)
(* WHERE is_deleted = false: would a row with these values, made active,   *)
(* violate it (except: the row itself, when it exists already)             *)
UniqueViolation(user, normalized, except) ==
    \E n \in NoteIds \ except :
        notes[n].user = user /\ notes[n].normalized = normalized /\ ~notes[n].deleted

TaskIds == 1..MaxTasks

IdleTask == [pc |-> "idle", note |-> 0, seen |-> "", outcome |-> NoOutcome, fetch_title |-> None,
             fetches |-> 0, llm_calls |-> 0, commits |-> 0, calls |-> <<>>]

QueuedTask(note_id) == [IdleTask EXCEPT !.pc = "queued", !.note = note_id]

FreeTaskIds == { t \in TaskIds : tasks[t].pc = "idle" }

LowestFree(S) == CHOOSE x \in S : \A y \in S : x <= y

(* BackgroundTasks.add_task(run_note_analysis_job, note_id) *)
AddTask(ts, note_id) ==
    [ts EXCEPT ![LowestFree({ t \in TaskIds : ts[t].pc = "idle" })] = QueuedTask(note_id)]

ReqIds == 1..MaxInflight

NoUrl == Url("", FALSE, PublicHost, 0, <<>>, FALSE, <<>>, FALSE)

IdleReq == [pc |-> "idle", kind |-> "", user |-> "", url |-> NoUrl,
            tags |-> <<>>, note |-> 0, count |-> 0, win |-> 0,
            code |-> 0, created |-> FALSE, status |-> ""]

RateKeys == { <<kind, user>> : kind \in {"create", "reanalyze"}, user \in Users }

(* settings.note_create_limit_per_hour / note_reanalyze_limit_per_10m *)
RateLimit(key) == IF key[1] = "create" THEN note_create_limit_per_hour ELSE note_reanalyze_limit_per_10m

AbsentKey(win) == [count |-> 0, ttl |-> FALSE, win |-> win]

(* what one HTTP request of the LLM client ended with; kind: "none",       *)
(* "response" (a body that is JSON), "bad_json" (json.JSONDecodeError),    *)
(* "http" (urllib.error.HTTPError, with its status), "url"                 *)
(* (urllib.error.URLError), "timeout" (TimeoutError), "other" (any other   *)
(* exception)                                                              *)
HttpOutcome(kind, status) == [kind |-> kind, status |-> status]

(* no LLMClient.analyze call is under way *)
(* no response body has been decoded *)
NoBody == [shape |-> "none"]

IdleLLM == [pc |-> "idle", max_retries |-> 0, retries |-> 0, attempt |-> 0, requests |-> 0,
            last |-> HttpOutcome("none", 0), slept |-> <<>>, result |-> "",
            body |-> NoBody, parsed |-> None]

(* no function has been called by itself *)
NoCall == [fn |-> "none"]

(* no refresh job has been queued; id counts the jobs queued, rec is the    *)
(* value of the job's key in Redis (None when absent or expired), payload  *)
(* the dict run_aggregation_refresh_job holds, seen the status the last    *)
(* poll of the job returned                                                *)
NoJob == [id |-> 0, pc |-> "none", rec |-> None, payload |-> None, scope |-> 0, total |-> 0,
          seen |-> ""]

(* no refresh is under way; runs counts the refreshes finished, and        *)
(* rejected tells whether _normalize_source_url has turned down an entry   *)
(* of a feed of this refresh for its host                                  *)
IdleAgg == [pc |-> "idle", todo |-> <<>>, rejected |-> FALSE, queue |-> <<>>,
            refreshed |-> 0, failed |-> 0, failures |-> 0, latest |-> None, runs |-> 0,
            calls |-> <<>>]

----------------------------------------------------------------------------
Init ==
    /\ notes = <<>>
    /\ summaries = <<>>
    /\ tasks = [t \in TaskIds |-> IdleTask]
    /\ reqs = [r \in ReqIds |-> IdleReq]
    /\ redis = [k \in RateKeys |-> AbsentKey(0)]
    /\ fetched = {}
    /\ passed = [k \in RateKeys |-> [w \in 0..MaxWindows |-> 0]]
    /\ served = 0
    /\ ended = [note |-> 0, how |-> ""]
    /\ llm = IdleLLM
    /\ sources = <<>>
    /\ items = <<>>
    /\ feeds = {}
    /\ agg = IdleAgg
    /\ job = NoJob
    /\ call = NoCall

----------------------------------------------------------------------------
(* HTTP requests: POST /notes and POST /notes/{id}/reanalyze.  A request   *)
(* is a sequence of steps because the Redis commands and the SQL           *)
(* statements of concurrent requests interleave.  The service call's       *)
(* return value (or the HTTPException's status) is kept in the request     *)
(* until the endpoint function has acted on it.                            *)

Redis_incr(key) == [redis EXCEPT ![key].count = @ + 1]

(* an expire command that is lost *)
Redis_expireLost(key) == redis

(* redis.expire(key, ttl): sets the TTL of an existing key *)
Redis_expire(key) == IF redis[key].count > 0 THEN [redis EXCEPT ![key].ttl = TRUE] ELSE redis

(* a request arrives on worker r and _enforce_rate_limit runs              *)
(* count = redis.incr(key); the workers are taken in order                 *)
RateIncr(r, kind, user, url, tags, note_id) ==
    LET key == <<kind, user>>
    IN  /\ reqs[r].pc = "idle"
        /\ \A q \in 1..(r - 1) : reqs[q].pc # "idle"
        /\ redis' = Redis_incr(key)
        /\ reqs' = [reqs EXCEPT ![r] = [IdleReq EXCEPT !.pc = "counted", !.kind = kind, !.user = user,
                                          !.url = url, !.tags = tags, !.note = note_id,
                                          !.count = redis[key].count + 1, !.win = redis[key].win]]
        /\ served' = served + 1
        /\ UNCHANGED <<notes, summaries, tasks, fetched, passed, ended, others>>

(* POST /notes arrives *)
CreateArrive(r, user, url, tags) == RateIncr(r, "create", user, url, tags, 0)

(* POST /notes/{note_id}/reanalyze arrives *)
ReanalyzeArrive(r, user, note_id) == RateIncr(r, "reanalyze", user, NoUrl, <<>>, note_id)

(* a limit check that lets one request too many through *)
OverLimitOffByOne(count, limit) == count > limit + 1

(* the count above which _enforce_rate_limit raises 429 *)
OverLimit(count, limit) == count > limit

(* _enforce_rate_limit, rest: expire when count == 1, 429 when over limit *)
RateCheck(r) ==
    LET key == <<reqs[r].kind, reqs[r].user>>
    IN  /\ reqs[r].pc = "counted"
        /\ redis' = IF reqs[r].count = 1 THEN Redis_expire(key) ELSE redis
        /\ IF OverLimit(reqs[r].count, RateLimit(key))
           THEN /\ reqs' = [reqs EXCEPT ![r].pc = "respond", ![r].code = 429]
                /\ passed' = passed
           ELSE /\ reqs' = [reqs EXCEPT ![r].pc = "passed"]
                /\ passed' = [passed EXCEPT ![key][reqs[r].win] = @ + 1]
        /\ UNCHANGED <<notes, summaries, tasks, fetched, served, ended, others>>

(* Redis drops a key whose TTL has run out: the counter window ends *)
ExpireKey(key) ==
    /\ redis[key].count > 0
    /\ redis[key].ttl
    /\ redis[key].win < MaxWindows
    /\ redis' = [redis EXCEPT ![key] = AbsentKey(redis[key].win + 1)]
    /\ UNCHANGED <<notes, summaries, tasks, reqs, fetched, passed, served, ended, others>>

(* NoteService.create_note after the rate limit, up to the lookup of an    *)
(* existing note (the payload's visibility, body and tags are valid)       *)
CreateLookup(r) ==
    LET norm == NoteNormalizeSourceUrl(reqs[r].url)
        existing == IF norm.ok THEN GetByUserAndNormalizedUrl(reqs[r].user, norm.normalized) ELSE {}
    IN  /\ reqs[r].pc = "passed"
        /\ reqs[r].kind = "create"
        /\ reqs' = IF ~norm.ok
                   THEN [reqs EXCEPT ![r].pc = "respond", ![r].code = 400]
                   ELSE IF existing # {}
                   THEN [reqs EXCEPT ![r].pc = "respond", ![r].code = 200, ![r].created = FALSE,
                                     ![r].note = CHOOSE n \in existing : TRUE]
                   ELSE [reqs EXCEPT ![r].pc = "insert"]
        /\ UNCHANGED <<notes, summaries, tasks, redis, fetched, passed, served, ended, others>>

(* NoteService.create_note from note_repo.create to the commit; the INSERT *)
(* fails on the unique index when a concurrent request has inserted the    *)
(* same (user, normalized URL)                                             *)
CreateInsert(r) ==
    LET norm == NoteNormalizeSourceUrl(reqs[r].url)
    IN  /\ reqs[r].pc = "insert"
        /\ IF UniqueViolation(reqs[r].user, norm.normalized, {})
           THEN /\ reqs' = [reqs EXCEPT ![r].pc = "respond", ![r].code = 500]
                /\ notes' = notes
           ELSE /\ notes' = Append(notes, NoteRow(reqs[r].user, norm.source_url, norm.normalized,
                                                  norm.domain, reqs[r].tags))
                /\ reqs' = [reqs EXCEPT ![r].pc = "respond", ![r].code = 200, ![r].created = TRUE,
                                        ![r].note = Len(notes) + 1]
        /\ UNCHANGED <<summaries, tasks, redis, fetched, passed, served, ended, others>>

(* NoteService.reanalyze after the rate limit *)
Reanalyze(r) ==
    LET n == reqs[r].note
    IN  /\ reqs[r].pc = "passed"
        /\ reqs[r].kind = "reanalyze"
        /\ IF GetByIdForUser(n, reqs[r].user) = None
           THEN /\ reqs' = [reqs EXCEPT ![r].pc = "respond", ![r].code = 404]
                /\ notes' = notes
           ELSE /\ notes' = IF notes[n].status \notin {"pending", "running"}
                            THEN [notes EXCEPT ![n].status = "pending", ![n].error = None]
                            ELSE notes
                /\ reqs' = [reqs EXCEPT ![r].pc = "respond", ![r].code = 200,
                                        ![r].status = notes'[n].status]
        /\ UNCHANGED <<summaries, tasks, redis, fetched, passed, served, ended, others>>

(* an endpoint that queues a task after every successful call *)
QueuesTaskWhenOk(req) == req.code = 200

(* whether the endpoint function queues run_note_analysis_job for the      *)
(* service's result: create_note when result.created, reanalyze_note when  *)
(* detail.analysis_status == "pending"                                     *)
QueuesTask(req) ==
    /\ req.code = 200
    /\ IF req.kind = "create" THEN req.created ELSE req.status = "pending"

(* api/v1/notes.py create_note / reanalyze_note after the service call:    *)
(* add_task and the response                                               *)
Respond(r) ==
    /\ reqs[r].pc = "respond"
    /\ IF QueuesTask(reqs[r])
       THEN /\ FreeTaskIds # {}
            /\ tasks' = AddTask(tasks, reqs[r].note)
       ELSE tasks' = tasks
    /\ reqs' = [reqs EXCEPT ![r] = IdleReq]
    /\ UNCHANGED <<notes, summaries, redis, fetched, passed, served, ended, others>>

(* NoteService.delete_note; a missing note is a 404 without effect *)
DeleteNote(user, note_id) ==
    /\ GetByIdForUser(note_id, user) # None
    /\ notes' = [notes EXCEPT ![note_id].deleted = TRUE]
    /\ UNCHANGED <<summaries, tasks, reqs, redis, fetched, passed, served, ended, others>>

(* AdminService.restore_note; a unique index violation is a 409 without    *)
(* effect, as is a note that is not deleted                                *)
RestoreNote(note_id) ==
    /\ note_id \in NoteIds
    /\ notes[note_id].deleted
    /\ ~UniqueViolation(notes[note_id].user, notes[note_id].normalized, {note_id})
    /\ notes' = [notes EXCEPT ![note_id].deleted = FALSE]
    /\ UNCHANGED <<summaries, tasks, reqs, redis, fetched, passed, served, ended, others>>

----------------------------------------------------------------------------
(* The background task run_note_analysis_job -> NoteService.               *)
(* run_analysis_job.  Each task has its own database session; a step is    *)
(* one round trip to the database or to the network.                       *)

SummaryRow(note_id, status, title, tags, error_code, error_message, error_stage, error_class, retryable, elapsed_ms) ==
    [note_id |-> note_id, status |-> status, output_title |-> title, output_tags |-> tags,
     error_code |-> error_code, error_message |-> error_message, error_stage |-> error_stage,
     error_class |-> error_class, retryable |-> retryable, elapsed_ms |-> elapsed_ms]

(* a table that keeps the latest row only *)
CreateSummaryLatestOnly(rows, row) == <<row>>

(* NoteRepository.create_summary: a new row is added and flushed *)
CreateSummary(rows, row) == Append(rows, row)

(* run_analysis_job has returned for this note: "absent" (no such note),   *)
(* "skipped" (not pending), "succeeded", "failed", or "vanished" (the note *)
(* was gone when the outcome was to be stored)                             *)
Ended(note_id, how) == [note |-> note_id, how |-> how]

(* run_note_analysis_job returns, the session is closed *)
EndTask(t) == [tasks EXCEPT ![t] = IdleTask]

(* a pending check that also lets a running note through *)
ShouldRunUnlessDone(status) == status \in {"pending", "running"}

(* whether run_analysis_job goes on after loading a note in this status *)
ShouldRun(status) == status = "pending"

(* run_analysis_job lines 224-229: load the note, return unless pending *)
TaskLoad(t) ==
    LET found == GetById(tasks[t].note)
    IN  /\ tasks[t].pc = "queued"
        /\ IF found = None
           THEN /\ tasks' = EndTask(t)
                /\ ended' = Ended(tasks[t].note, "absent")
           ELSE IF ~ShouldRun(notes[tasks[t].note].status)
           THEN /\ tasks' = EndTask(t)
                /\ ended' = Ended(tasks[t].note, "skipped")
           ELSE /\ tasks' = [tasks EXCEPT ![t].pc = "loaded", ![t].seen = notes[tasks[t].note].status]
                /\ ended' = ended
        /\ UNCHANGED <<notes, summaries, reqs, redis, fetched, passed, served, others>>

(* run_analysis_job lines 231-234: status running, commit *)
TaskMarkRunning(t) ==
    LET n == tasks[t].note
    IN  /\ tasks[t].pc = "loaded"
        /\ notes' = [notes EXCEPT ![n].status = "running", ![n].error = None]
        /\ tasks' = [tasks EXCEPT ![t].pc = "fetch", ![t].commits = @ + 1]
        /\ UNCHANGED <<summaries, reqs, redis, fetched, passed, served, ended, others>>

(* _analyze_source up to the LLM call: _fetch_source_content, the empty    *)
(* content check and the API key check (settings.llm_api_key)              *)
TaskFetch(t, f, api_key) ==
    LET n == tasks[t].note
    IN  /\ tasks[t].pc = "fetch"
        /\ fetched' = fetched \cup {notes[n].source_url}
        /\ tasks' =
             IF f.raised
             THEN [tasks EXCEPT ![t].pc = "finish", ![t].fetches = @ + 1,
                     ![t].outcome = AnalysisError("source_unreachable",
                                                  Msg("source unreachable, retry later", 15, 0, "retry later zh"))]
             ELSE IF ~f.content
             THEN [tasks EXCEPT ![t].pc = "finish", ![t].fetches = @ + 1,
                     ![t].outcome = AnalysisError("empty_content", Msg("source content is empty", 11, 0, ""))]
             ELSE IF ~api_key
             THEN [tasks EXCEPT ![t].pc = "finish", ![t].fetches = @ + 1,
                     ![t].outcome = AnalysisError("llm_not_configured",
                                                  Msg("api key not configured", 23, 0, ""))]
             ELSE [tasks EXCEPT ![t].pc = "llm", ![t].fetches = @ + 1, ![t].fetch_title = f.title]
        /\ UNCHANGED <<notes, summaries, reqs, redis, passed, served, ended, others>>

(* truthiness of an optional str *)
Truthy(opt) == opt # None /\ NonEmpty(opt[1])

(* (title or fallback or "")[:512] or None *)
TitleOrFallback(title, fallback) ==
    IF Truthy(title) THEN Some(Truncate(title[1], MaxTitleLen))
    ELSE IF Truthy(fallback) THEN Some(Truncate(fallback[1], MaxTitleLen))
    ELSE None

(* NoteService._build_source_analysis: the AnalysisError it raises or the  *)
(* SourceAnalysis it returns                                               *)
BuildSourceAnalysis(result, fallback_title) ==
    IF result.tags = <<>>
    THEN AnalysisError("invalid_output", Msg("model returned no valid tags", 9, 0, ""))
    ELSE IF result.lang # "zh" /\ result.tags_zh = <<>>
    THEN AnalysisError("invalid_output", Msg("model returned no chinese tags", 9, 0, ""))
    ELSE IF Strip(result.summary).len = 0
    THEN AnalysisError("invalid_output", Msg("model returned no valid summary", 9, 0, ""))
    ELSE SourceAnalysis(TitleOrFallback(result.title, fallback_title), result.tags)

(* one call of llm_client.analyze: its repair_mode argument and what it    *)
(* did                                                                     *)
Invocation(repair_mode, reply) == [repair_mode |-> repair_mode, reply |-> reply]

(* a repair call after every LLMClientError *)
NeedsRepairAfterAnyError(reply) == reply.kind = "llm_client_error"

(* except LLMClientError as exc, exc.code == "invalid_output": the first   *)
(* call is followed by the repair call                                     *)
NeedsRepair(reply) == reply.kind = "llm_client_error" /\ reply.code = "invalid_output"

(* what one analyze call leaves _analyze_source_with_llm with: the         *)
(* exception leaving it, or the SourceAnalysis; repair: whether an         *)
(* LLMClientError invalid_output is answered by the second call            *)
AfterAnalyze(reply, fallback_title, repair) ==
    IF reply.kind = "result" THEN BuildSourceAnalysis(reply, fallback_title)
    ELSE IF reply.kind = "llm_client_error"
    THEN IF repair /\ NeedsRepair(reply) THEN NoOutcome
         ELSE AnalysisError(reply.code, reply.message)
    ELSE reply

(* _analyze_source_with_llm: the first analyze call, repair_mode=False *)
TaskLLM(t, reply) ==
    LET after == AfterAnalyze(reply, tasks[t].fetch_title, TRUE)
    IN  /\ tasks[t].pc = "llm"
        /\ tasks' = IF after = NoOutcome
                    THEN [tasks EXCEPT ![t].pc = "repair", ![t].llm_calls = @ + 1,
                            ![t].calls = Append(@, Invocation(FALSE, reply))]
                    ELSE [tasks EXCEPT ![t].pc = "finish", ![t].llm_calls = @ + 1, ![t].outcome = after,
                            ![t].calls = Append(@, Invocation(FALSE, reply))]
        /\ UNCHANGED <<notes, summaries, reqs, redis, fetched, passed, served, ended, others>>

(* _analyze_source_with_llm: the second analyze call, repair_mode=True *)
TaskRepair(t, reply) ==
    /\ tasks[t].pc = "repair"
    /\ tasks' = [tasks EXCEPT ![t].pc = "finish", ![t].llm_calls = @ + 1,
                   ![t].outcome = AfterAnalyze(reply, tasks[t].fetch_title, FALSE),
                   ![t].calls = Append(@, Invocation(TRUE, reply))]
    /\ UNCHANGED <<notes, summaries, reqs, redis, fetched, passed, served, ended, others>>

(* run_analysis_job lines 264-301: the result is stored *)
TaskSucceed(t) ==
    LET n == tasks[t].note
        result == tasks[t].outcome
    IN  /\ tasks[t].pc = "finish"
        /\ result.kind = "ok"
        /\ IF GetById(n) = None
           THEN /\ UNCHANGED <<notes, summaries>>
                /\ ended' = Ended(n, "vanished")
           ELSE /\ ended' = Ended(n, "succeeded")
                /\ notes' = [notes EXCEPT
                       ![n].title = TitleOrFallback(result.title, notes[n].title),
                       ![n].tags = IF notes[n].tags = <<>> /\ result.tags # <<>>
                                   THEN result.tags ELSE notes[n].tags,
                       ![n].status = "succeeded",
                       ![n].error = None]
                /\ summaries' = CreateSummary(summaries,
                       SummaryRow(n, "succeeded", result.title, result.tags,
                                  None, None, None, None, None, None))
        /\ tasks' = EndTask(t)
        /\ UNCHANGED <<reqs, redis, fetched, passed, served, others>>

(* the message _mark_analysis_failed stores: (error_message or default).strip()[:500] *)
FailureMessage(error_message) ==
    Truncate(Strip(IF NonEmpty(error_message) THEN error_message ELSE DefaultFailureMessage), MaxErrorLen)

(* the message stripped but not cut to 500 characters *)
NoteFailureMessageUncut(error_message) ==
    Strip(IF NonEmpty(error_message) THEN error_message ELSE DefaultFailureMessage)

(* the message _mark_analysis_failed assigns to note.analysis_error *)
NoteFailureMessage(error_message) == FailureMessage(error_message)

(* run_analysis_job lines 239-262: the error_code / error_message handed   *)
(* to _mark_analysis_failed for an exception                               *)
FailureCode(exc) == IF exc.kind = "analysis_error" THEN exc.code ELSE "analysis_error"

FailureText(exc) ==
    IF exc.kind = "analysis_error" THEN exc.message
    ELSE IF NonEmpty(Strip(exc.message)) THEN Strip(exc.message) ELSE DefaultFailureMessage

(* run_analysis_job lines 239-262 with _mark_analysis_failed *)
TaskFail(t, now_delta) ==
    LET n == tasks[t].note
        exc == tasks[t].outcome
        diagnostic == BuildFailureDiagnostic(exc, now_delta)
    IN  /\ tasks[t].pc = "finish"
        /\ exc.kind \in {"analysis_error", "exception"}
        /\ IF GetById(n) = None
           THEN /\ UNCHANGED <<notes, summaries>>
                /\ ended' = Ended(n, "vanished")
           ELSE /\ ended' = Ended(n, "failed")
                /\ notes' = [notes EXCEPT
                       ![n].status = "failed",
                       ![n].error = Some(NoteFailureMessage(FailureText(exc)))]
                /\ summaries' = CreateSummary(summaries,
                       SummaryRow(n, "failed", None, <<>>,
                                  Some(FailureCode(exc)),
                                  Some(FailureMessage(FailureText(exc))),
                                  Some(diagnostic.error_stage),
                                  Some(diagnostic.error_class),
                                  Some(diagnostic.retryable),
                                  Some(diagnostic.elapsed_ms)))
        /\ tasks' = EndTask(t)
        /\ UNCHANGED <<reqs, redis, fetched, passed, served, others>>

----------------------------------------------------------------------------
(* LLMClient.analyze: the checks before the first request and the request  *)
(* loop of _request_with_retry.  llm.result is "" while the call runs,     *)
(* "response" when _request_with_retry returns the decoded body, the code  *)
(* of the LLMClientError raised, or "exception" when another exception     *)
(* leaves the call.                                                        *)

pipeline == <<notes, summaries, tasks, reqs, redis, fetched, passed, served, ended, aggregation, job,
              call>>

TRANSIENT_HTTP_STATUS == {429, 500, 502, 503, 504}

(* statuses of HTTPError the provider may answer with *)
HttpStatuses == TRANSIENT_HTTP_STATUS \cup {400, 401, 404}

(* what one urlopen + read + json.loads can end with *)
HttpOutcomes ==
    { HttpOutcome("response", 200), HttpOutcome("bad_json", 200),
      HttpOutcome("url", 0), HttpOutcome("timeout", 0), HttpOutcome("other", 0) }
    \cup { HttpOutcome("http", status) : status \in HttpStatuses }

(* values of settings.llm_max_retries *)
RetrySettings == 0..MaxRetrySetting

(* the LLMClientError analyze raises before any request, "" when the       *)
(* configuration is complete: blank api key, unknown provider style, no    *)
(* model name (gemini).  A blank base URL is replaced by the default of    *)
(* the provider style, so that llm_base_url_not_configured is not raised.  *)
ConfigFaults ==
    { "", "llm_not_configured", "llm_provider_not_supported", "llm_model_not_configured" }

(* a retry budget that counts the retries after the first request *)
RetriesAfterFirst(max_retries) == max_retries + 1

(* retries = max(1, settings.llm_max_retries) *)
Retries(max_retries) == Max(1, max_retries)

(* LLMClient._backoff: the seconds slept, min(8, 2 ** max(0, attempt - 1)) *)
Backoff(attempt) == Min(8, 2 ^ Max(0, attempt - 1))

(* analyze up to the first iteration of the loop in _request_with_retry *)
LLMAnalyze(max_retries, fault) ==
    /\ llm.pc = "idle"
    /\ llm' = IF fault # ""
              THEN [IdleLLM EXCEPT !.pc = "done", !.max_retries = max_retries, !.result = fault]
              ELSE [IdleLLM EXCEPT !.pc = "request", !.max_retries = max_retries,
                                   !.retries = Retries(max_retries), !.attempt = 1]
    /\ UNCHANGED pipeline

(* whether the except clause of this outcome goes on to another attempt *)
RetriesOn(outcome, attempt, retries) ==
    /\ attempt < retries
    /\ \/ outcome.kind = "http" /\ outcome.status \in TRANSIENT_HTTP_STATUS
       \/ outcome.kind = "url"
       \/ outcome.kind = "timeout"

(* what the call ends with when the outcome is not retried *)
ResultOf(outcome) ==
    IF outcome.kind = "response" THEN "response"
    ELSE IF outcome.kind = "http" THEN "llm_http_error"
    ELSE IF outcome.kind = "url" THEN "llm_network_error"
    ELSE IF outcome.kind = "timeout" THEN "llm_timeout"
    ELSE IF outcome.kind = "bad_json" THEN "llm_invalid_response"
    ELSE "exception"

(* one iteration of the loop: the request and the except clause it ends    *)
(* in; a decoded response goes on to _parse_result                         *)
LLMRequest(outcome) ==
    /\ llm.pc = "request"
    /\ llm' = IF RetriesOn(outcome, llm.attempt, llm.retries)
              THEN [llm EXCEPT !.pc = "backoff", !.requests = @ + 1, !.last = outcome]
              ELSE [llm EXCEPT !.pc = IF outcome.kind = "response" THEN "parse" ELSE "done",
                               !.requests = @ + 1, !.last = outcome,
                               !.result = ResultOf(outcome)]
    /\ UNCHANGED pipeline

(* self._backoff(attempt); continue *)
LLMBackoff ==
    /\ llm.pc = "backoff"
    /\ llm' = [llm EXCEPT !.pc = "request", !.slept = Append(@, Backoff(llm.attempt)),
                          !.attempt = @ + 1]
    /\ UNCHANGED pipeline

(* LLMClient._parse_result.  The JSON object of the model is the record    *)
(* output: a key whose value is no str (or is absent) is None, tags are    *)
(* the lists after normalize_hashtag_list, cjk counts the CJK characters   *)
(* of title and summary.  The alternative spellings of a key               *)
(* (summaryShort, short_summary, ...) are taken as the key itself.         *)
MAX_TITLE_LENGTH == 120
MAX_SUMMARY_SHORT_LENGTH_ZH == 100
MAX_SUMMARY_LONG_LENGTH_ZH == 300
MAX_SUMMARY_SHORT_LENGTH_NON_ZH == 200
MAX_SUMMARY_LONG_LENGTH_NON_ZH == 600
CjkThreshold == 8

(* a or b on optional strings *)
Or(a, b) == IF Truthy(a) THEN a ELSE b

(* LLMClient._normalize_language with _detect_source_language *)
NormalizeLanguage(raw, cjk) ==
    IF raw \in {"zh", "zh-cn", "zh-hans", "chinese", "cn"} THEN "zh"
    ELSE IF raw \in {"non-zh", "en", "en-us", "english", "other"} THEN "non-zh"
    ELSE IF cjk >= CjkThreshold THEN "zh" ELSE "non-zh"

(* LLMClient._normalize_title *)
NormalizeTitle(raw) ==
    IF raw = None \/ Strip(raw[1]).len = 0 THEN None
    ELSE Some(Truncate(Strip(raw[1]), MAX_TITLE_LENGTH))

(* LLMClient._normalize_summary_optional *)
NormalizeSummaryOptional(raw, max_length) ==
    IF raw = None \/ Truncate(Strip(raw[1]), max_length).len = 0 THEN None
    ELSE Some(Truncate(Strip(raw[1]), max_length))

(* LLMClient._truncate_summary_for_short *)
TruncateSummaryForShort(text, max_length) == Truncate(Strip(text), max_length)

(* LLMClient._resolve_summary_pair: <<short, long>> *)
ResolveSummaryPair(short_text, long_text, short_max_length, long_max_length) ==
    LET short_value == NormalizeSummaryOptional(short_text, short_max_length)
        long_value == NormalizeSummaryOptional(long_text, long_max_length)
        long_filled == IF long_value = None THEN short_value ELSE long_value
    IN  IF short_value = None /\ long_value = None THEN <<None, None>>
        ELSE <<IF short_value = None
               THEN Some(TruncateSummaryForShort(long_filled[1], short_max_length))
               ELSE short_value,
               long_filled>>

(* LLMClient._summary_limits_for_language: <<short, long>> *)
SummaryLimitsForLanguage(source_language) ==
    IF source_language = "zh" THEN <<MAX_SUMMARY_SHORT_LENGTH_ZH, MAX_SUMMARY_LONG_LENGTH_ZH>>
    ELSE <<MAX_SUMMARY_SHORT_LENGTH_NON_ZH, MAX_SUMMARY_LONG_LENGTH_NON_ZH>>

(* the LLMAnalysisResult _parse_result returns *)
LLMAnalysisResult(source_language, title, title_zh, summary_short, summary_short_zh, summary_long, summary_long_zh, tags, tags_zh) ==
    [kind |-> "analysis_result", source_language |-> source_language, title |-> title,
     title_zh |-> title_zh, summary_short |-> summary_short, summary_short_zh |-> summary_short_zh,
     summary_long |-> summary_long, summary_long_zh |-> summary_long_zh, tags |-> tags,
     tags_zh |-> tags_zh]

(* a fallback that leaves the zh field as the model gave it *)
ZhAsGiven(zh, original) == zh

(* the fallback of a zh field to the original field: zh or original *)
ZhOrOriginal(zh, original) == IF zh # None THEN zh ELSE original

(* tags_zh or tags *)
ZhTagsOrOriginal(tags_zh, tags) == IF tags_zh # <<>> THEN tags_zh ELSE tags

(* _parse_result from the parsed JSON object on: the LLMClientError raised *)
(* or the LLMAnalysisResult returned                                       *)
ParseOutput(output) ==
    LET source_language == NormalizeLanguage(output.source_language, output.cjk)
        title == NormalizeTitle(output.title)
        title_zh == NormalizeTitle(output.title_zh)
        limits == SummaryLimitsForLanguage(source_language)
        pair == ResolveSummaryPair(
                    NormalizeSummaryOptional(Or(output.summary_short, output.summary), limits[1]),
                    NormalizeSummaryOptional(Or(output.summary_long, output.summary), limits[2]),
                    limits[1], limits[2])
        pair_zh == ResolveSummaryPair(
                    NormalizeSummaryOptional(Or(output.summary_short_zh, output.summary_zh),
                                             MAX_SUMMARY_SHORT_LENGTH_ZH),
                    NormalizeSummaryOptional(Or(output.summary_long_zh, output.summary_zh),
                                             MAX_SUMMARY_LONG_LENGTH_ZH),
                    MAX_SUMMARY_SHORT_LENGTH_ZH, MAX_SUMMARY_LONG_LENGTH_ZH)
    IN  IF pair[1] = None \/ pair[2] = None
        THEN LLMClientError("invalid_output", Msg("model output lacks a valid summary", 10, 0, ""))
        ELSE IF source_language = "non-zh" /\ (pair_zh[1] = None \/ pair_zh[2] = None)
        THEN LLMClientError("invalid_output", Msg("non-zh content lacks a zh summary", 11, 0, ""))
        ELSE IF output.tags = <<>>
        THEN LLMClientError("invalid_output", Msg("model output lacks valid tags", 10, 0, ""))
        ELSE IF source_language = "non-zh" /\ output.tags_zh = <<>>
        THEN LLMClientError("invalid_output", Msg("non-zh content lacks zh tags", 11, 0, ""))
        ELSE IF source_language = "zh"
        THEN LLMAnalysisResult(source_language, title, ZhOrOriginal(title_zh, title),
                               pair[1], ZhOrOriginal(pair_zh[1], pair[1]),
                               pair[2], ZhOrOriginal(pair_zh[2], pair[2]),
                               output.tags, ZhTagsOrOriginal(output.tags_zh, output.tags))
        ELSE LLMAnalysisResult(source_language, title, title_zh, pair[1], pair_zh[1], pair[2], pair_zh[2],
                               output.tags, output.tags_zh)

(* a response body as json.loads returned it.  shape "object" is a JSON    *)
(* object whose text is the JSON object output; "no_choices" has no        *)
(* choices / candidates list, "empty_text" no text, "not_json" a text that *)
(* holds no JSON object; "not_object" is a JSON value that is no object    *)
(* (a list, a string, null) and "usage_null" an object whose usage is null *)
Body(shape, output) == [shape |-> shape, output |-> output]

(* _parse_result on a response body: the LLMClientError raised, the        *)
(* LLMAnalysisResult returned, or another exception (AttributeError of     *)
(* response_data.get / usage.get)                                          *)
ParseResult(response_data) ==
    IF response_data.shape = "not_object"
    THEN OtherException("AttributeError", Msg("object has no attribute get", 40, 0, ""))
    ELSE IF response_data.shape \in {"no_choices", "empty_text"}
    THEN LLMClientError("invalid_output", Msg("model output is empty", 6, 0, ""))
    ELSE IF response_data.shape = "not_json"
    THEN LLMClientError("invalid_output", Msg("model output is not valid JSON", 12, 0, ""))
    ELSE LET parsed == ParseOutput(response_data.output)
         IN  IF parsed.kind = "analysis_result" /\ response_data.shape = "usage_null"
             THEN OtherException("AttributeError", Msg("NoneType object has no attribute get", 44, 0, ""))
             ELSE parsed

(* what analyze ends with after _parse_result *)
ResultAfterParse(parsed) ==
    IF parsed.kind = "analysis_result" THEN "ok"
    ELSE IF parsed.kind = "llm_client_error" THEN parsed.code
    ELSE "exception"

(* analyze line 107: _parse_result on the decoded response *)
LLMParse(response_data) ==
    /\ llm.pc = "parse"
    /\ llm' = [llm EXCEPT !.pc = "done", !.body = response_data,
                          !.parsed = Some(ParseResult(response_data)),
                          !.result = ResultAfterParse(ParseResult(response_data))]
    /\ UNCHANGED pipeline

(* the call has returned or raised; the client is ready for the next call *)
LLMReturn ==
    /\ llm.pc = "done"
    /\ llm' = IdleLLM
    /\ UNCHANGED pipeline

----------------------------------------------------------------------------
(* Aggregation: the administrator registers feed sources; a refresh        *)
(* (AggregationService._refresh_sources) fetches each source's feed,       *)
(* creates an aggregate item per usable entry and analyzes the items.  The *)
(* refresh works in one database transaction, committed at its end.        *)

(* the variables of the notes, the LLM client and the single calls *)
records == <<notes, summaries, tasks, reqs, redis, passed, served, ended, llm, call>>

(* the variables no step of _refresh_sources writes *)
notebook == <<records, job>>

SourceRow(slug, source_domain, feed_url, homepage_url, active) ==
    [slug |-> slug, domain |-> source_domain, feed_url |-> feed_url, homepage_url |-> homepage_url,
     active |-> active, deleted |-> FALSE]

SourceIds == 1..Len(sources)

ItemIds == 1..Len(items)

(* the AggregateItem _ensure_item_for_source_url creates *)
ItemRow(source, source_url, normalized, domain, title, slug) ==
    [source |-> source, source_url |-> source_url, normalized |-> normalized, domain |-> domain,
     title |-> title, tags |-> <<slug>>, status |-> "pending", error |-> None, summary |-> None]

(* AdminService._normalize_source_domain: the lower-cased domain, which    *)
(* must contain a "."; None when it raises 400                             *)
NormalizeSourceDomain(raw) ==
    LET value == LowerHost(raw)
    IN  IF \/ value.kind = "name" /\ Len(value.labels) >= 2
           \/ value.kind = "ip4"
        THEN Some(value)
        ELSE None

(* AdminService._normalize_http_url: None when it raises 400 *)
NormalizeHttpUrl(raw) ==
    IF raw.scheme \in {"http", "https"} /\ raw.host.kind # "empty" THEN Some(raw) ELSE None

(* AdminService._ensure_domain_matches_url: TRUE when it returns *)
EnsureDomainMatchesUrl(source_domain, url) == HostEndsWith(LowerHost(url.host), source_domain)

(* AdminService.create_source; a 400 or 409 is without effect *)
AdminCreateSource(payload) ==
    LET source_domain == NormalizeSourceDomain(payload.source_domain)
    IN  /\ source_domain # None
        /\ NormalizeHttpUrl(payload.feed_url) # None
        /\ NormalizeHttpUrl(payload.homepage_url) # None
        /\ EnsureDomainMatchesUrl(source_domain[1], payload.feed_url)
        /\ EnsureDomainMatchesUrl(source_domain[1], payload.homepage_url)
        /\ \A s \in SourceIds : sources[s].slug # payload.slug
        /\ \A s \in SourceIds : sources[s].domain # source_domain[1]
        /\ sources' = Append(sources, SourceRow(payload.slug, source_domain[1], payload.feed_url,
                                                payload.homepage_url, payload.active))
        /\ UNCHANGED <<notebook, fetched, items, feeds, agg>>

(* AdminService.update_source: the fields of the payload that are not     *)
(* None replace those of the row; a 400, 404 or 409 is without effect      *)
AdminUpdateSource(source_id, payload) ==
    LET source == sources[source_id]
        source_domain == IF payload.source_domain = None THEN Some(source.domain)
                         ELSE NormalizeSourceDomain(payload.source_domain[1])
        feed_url == IF payload.feed_url = None THEN Some(source.feed_url)
                    ELSE NormalizeHttpUrl(payload.feed_url[1])
        homepage_url == IF payload.homepage_url = None THEN Some(source.homepage_url)
                        ELSE NormalizeHttpUrl(payload.homepage_url[1])
    IN  /\ source_id \in SourceIds
        /\ ~source.deleted
        /\ source_domain # None /\ feed_url # None /\ homepage_url # None
        /\ EnsureDomainMatchesUrl(source_domain[1], feed_url[1])
        /\ EnsureDomainMatchesUrl(source_domain[1], homepage_url[1])
        /\ \/ payload.source_domain # None \/ payload.feed_url # None
           \/ payload.homepage_url # None \/ payload.is_active # None
        /\ \A s \in SourceIds \ {source_id} : sources[s].domain # source_domain[1]
        /\ sources' = [sources EXCEPT ![source_id] =
                          [source EXCEPT !.domain = source_domain[1], !.feed_url = feed_url[1],
                                         !.homepage_url = homepage_url[1],
                                         !.active = IF payload.is_active = None THEN source.active
                                                    ELSE payload.is_active[1]]]
        /\ UNCHANGED <<notebook, fetched, items, feeds, agg>>

(* the slugs of the model in ascending order *)
SlugOrder == <<"blog", "intranet", "loop">>

(* the active sources that are not deleted, ORDER BY slug ASC *)
RECURSIVE ActiveBySlug(_)
ActiveBySlug(slugs) ==
    IF slugs = <<>> THEN <<>>
    ELSE LET ids == { s \in SourceIds :
                        sources[s].slug = Head(slugs) /\ sources[s].active /\ ~sources[s].deleted }
         IN  (IF ids = {} THEN <<>> ELSE <<CHOOSE s \in ids : TRUE>>) \o ActiveBySlug(Tail(slugs))

(* _refresh_sources is entered with the sources todo *)
AggBegin(todo) ==
    /\ agg.pc = "idle"
    /\ agg.runs < MaxRefreshes
    /\ agg' = [IdleAgg EXCEPT !.pc = IF todo = <<>> THEN "commit" ELSE "source",
                              !.todo = todo, !.runs = agg.runs]

AggStart(todo) ==
    /\ AggBegin(todo)
    /\ UNCHANGED <<notebook, fetched, sources, items, feeds>>

(* AggregationService.refresh_active_items *)
RefreshActiveItems == AggStart(ActiveBySlug(SlugOrder))

(* AggregationService.refresh_single_source; a missing source is an error  *)
(* without effect                                                          *)
RefreshSingleSource(source_id) ==
    /\ source_id \in SourceIds
    /\ ~sources[source_id].deleted
    /\ AggStart(<<source_id>>)

(* settings.aggregation_max_items_per_source *)
aggregation_max_items_per_source == 2

MAX_ANALYSIS_TAGS == 5
MaxSummaryLen == 400
REFRESH_JOB_MAX_FAILURE_EVENTS == 120

(* AggregationService._collect_feed_entries after the feed is parsed: the  *)
(* loop over raw_entries, entries being the candidates kept so far         *)
RECURSIVE CollectFeedEntries(_, _, _)
CollectFeedEntries(source, raw_entries, entries) ==
    IF raw_entries = <<>> \/ Len(entries) >= Max(1, aggregation_max_items_per_source)
    THEN entries
    ELSE LET link == Head(raw_entries).link
             norm == AggNormalizeSourceUrl(link)
             skip == CollectFeedEntries(source, Tail(raw_entries), entries)
         IN  IF link = EmptyLink THEN skip
             ELSE IF IsSkippedLink(link) THEN skip
             ELSE IF ~norm.ok THEN skip
             ELSE IF ~DomainMatches(norm.domain, source.domain) THEN skip
             ELSE IF LooksLikeAssetUrl(norm.normalized) THEN skip
             ELSE IF \E e \in 1..Len(entries) : entries[e].source_url = norm.normalized THEN skip
             ELSE CollectFeedEntries(source, Tail(raw_entries),
                                     Append(entries, [source_url |-> norm.normalized,
                                                      title |-> Head(raw_entries).title]))

(* AggregationService._merge_tags(tags, slug), tags being merged already *)
MergeTags(tags, slug) ==
    IF (\E i \in 1..Len(tags) : tags[i] = slug) \/ Len(tags) >= MAX_ANALYSIS_TAGS
    THEN tags
    ELSE Append(tags, slug)

(* AggregationService._ensure_item_for_source_url on the table rows: the   *)
(* table after it and the id of the item, 0 when it raises ValueError      *)
EnsureItemForSourceUrl(rows, source_id, entry) ==
    LET source == sources[source_id]
        norm == AggNormalizeSourceUrl(entry.source_url)
        found == { i \in 1..Len(rows) : rows[i].normalized = norm.normalized }
        item == CHOOSE i \in found : TRUE
    IN  IF ~norm.ok THEN [rows |-> rows, id |-> 0]
        ELSE IF ~DomainMatches(norm.domain, source.domain) THEN [rows |-> rows, id |-> 0]
        ELSE IF found # {}
        THEN [rows |-> [rows EXCEPT ![item].source = source_id,
                                    ![item].source_url = norm.source_url,
                                    ![item].domain = norm.domain,
                                    ![item].title = IF Truthy(entry.title)
                                                    THEN Some(Truncate(entry.title[1], MaxTitleLen))
                                                    ELSE @,
                                    ![item].tags = MergeTags(@, source.slug)],
              id |-> item]
        ELSE [rows |-> Append(rows, ItemRow(source_id, norm.source_url, norm.normalized, norm.domain,
                                            TitleOrFallback(entry.title, None), source.slug)),
              id |-> Len(rows) + 1]

(* AggregationService._ensure_items_for_source: the table after it and the *)
(* ids of the items, in the order of the entries                           *)
RECURSIVE EnsureItemsForSource(_, _, _, _)
EnsureItemsForSource(rows, source_id, feed_entries, ids) ==
    IF feed_entries = <<>> THEN [rows |-> rows, ids |-> ids]
    ELSE LET one == EnsureItemForSourceUrl(rows, source_id, Head(feed_entries))
         IN  EnsureItemsForSource(one.rows, source_id, Tail(feed_entries),
                                  IF one.id = 0 THEN ids ELSE Append(ids, one.id))

(* a list of failures without a cap *)
RecordRefreshFailureUncapped(n) == n + 1

(* AggregationService._record_refresh_failure, on the length of the list *)
RecordRefreshFailure(n) == IF n >= REFRESH_JOB_MAX_FAILURE_EVENTS THEN n ELSE n + 1

(* the refresh goes on to the next source, or to the commit *)
(* a loop over the sources that ends with the first source done *)
NextSourceNone(a) == [a EXCEPT !.todo = <<>>, !.queue = <<>>, !.pc = "commit"]

NextSource(a) ==
    [a EXCEPT !.todo = Tail(a.todo), !.queue = <<>>,
              !.pc = IF Tail(a.todo) = <<>> THEN "commit" ELSE "source"]

(* one iteration of the loop over the sources up to the loop over the      *)
(* items: _collect_feed_entries (the feed is fetched from source.feed_url  *)
(* and parsed to feed.entries, or feed.raised) and                         *)
(* _ensure_items_for_source                                                *)
AggCollect(feed) ==
    LET source_id == Head(agg.todo)
        source == sources[source_id]
        entries == IF feed.raised THEN <<>> ELSE CollectFeedEntries(source, feed.entries, <<>>)
        ensured == EnsureItemsForSource(items, source_id, entries, <<>>)
        rejected == \/ agg.rejected
                    \/ \E e \in 1..Len(feed.entries) :
                          AggNormalizeSourceUrl(feed.entries[e].link) = Rejected("private_host")
    IN  /\ agg.pc = "source"
        /\ feeds' = feeds \cup {source.feed_url}
        /\ IF entries = <<>> \/ ensured.ids = <<>>
           THEN /\ items' = items
                /\ agg' = NextSource([agg EXCEPT !.failed = @ + 1,
                                                 !.failures = RecordRefreshFailure(@),
                                                 !.rejected = rejected])
           ELSE /\ items' = ensured.rows
                /\ agg' = [agg EXCEPT !.pc = "analyze", !.queue = ensured.ids, !.rejected = rejected]
        /\ UNCHANGED <<notebook, fetched, sources>>

(* a check that turns down succeeded items only *)
ShouldRunUnlessSucceeded(item) == item.status # "succeeded"

(* AggregationService._should_run_analysis *)
ShouldRunAnalysis(item) ==
    IF item.status \in {"pending", "failed"} THEN TRUE
    ELSE IF item.status = "running" THEN FALSE
    ELSE ~(item.summary # None /\ Strip(item.summary[1]).len > 0)

AggMaxErrorLen == 500

(* AggregationService._extract_error_message: (str(exc).strip() or         *)
(* fallback)[:500]                                                         *)
ExtractErrorMessage(message, fallback) ==
    Truncate(IF Strip(message).len > 0 THEN Strip(message) ELSE fallback, AggMaxErrorLen)

AggRetryHints == CommonRetryHints \cup {"name or service not known"}

(* exc.__class__.__name__.lower(), as far as the keywords go *)
ClassNameHint(class) == IF class = "TimeoutError" THEN "timeout" ELSE ""

(* AggregationService._is_retryable_error: keyword search in the stripped  *)
(* message, or in the class name when the message is empty                 *)
IsRetryableError(message, class) ==
    IF Strip(message).len > 0 THEN message.hint \in AggRetryHints
    ELSE ClassNameHint(class) \in AggRetryHints

(* an AggregationStageError; code is what it was raised from: the code of  *)
(* an LLMClientError, "fetch_error" for an exception of                    *)
(* _fetch_source_document, "empty_content" for empty content, else ""      *)
AggStageError(message, stage, retryable, error_class, code) ==
    [ok |-> FALSE, message |-> message, stage |-> stage, retryable |-> retryable,
     error_class |-> error_class, code |-> code,
     title |-> None, summary |-> Msg("", 0, 0, ""), tags |-> <<>>]

(* an AggregateAnalysisResult *)
AggAnalysisResult(title, summary, tags) ==
    [ok |-> TRUE, message |-> Msg("", 0, 0, ""), stage |-> "", retryable |-> FALSE,
     error_class |-> "", code |-> "", title |-> title, summary |-> summary, tags |-> tags]

(* _analyze_with_model after the LLM calls: the summary check and the      *)
(* result it returns                                                       *)
BuildAggregateResult(result, source_title, slug) ==
    LET summary_text == Truncate(Strip(result.summary), MaxSummaryLen)
    IN  IF summary_text.len = 0
        THEN AggStageError(Msg("model returned no valid summary", 9, 0, ""), "llm_parse", FALSE,
                           "ValueError", "")
        ELSE AggAnalysisResult(TitleOrFallback(result.title, source_title), summary_text,
                               MergeTags(result.tags, slug))

(* _run_analysis lines 437-443: an exception of _analyze_with_model that   *)
(* is no AggregationStageError is wrapped                                  *)
WrapAnalyzeException(exc) ==
    AggStageError(ExtractErrorMessage(exc.message, Msg("model analysis failed", 6, 0, "")),
                  "llm_request", IsRetryableError(exc.message, exc.class), exc.class, "")

(* AggregationService._analyze_with_model, with the wrapping of another    *)
(* exception by _run_analysis; first and second are what the first call of *)
(* llm_client.analyze and the repair call do                               *)
AnalyzeWithModel(first, second, source_title, slug) ==
    IF first.kind = "result" THEN BuildAggregateResult(first, source_title, slug)
    ELSE IF first.kind = "llm_client_error" /\ ~NeedsRepair(first)
    THEN AggStageError(first.message, "llm_request", IsRetryableError(first.message, "LLMClientError"),
                       "LLMClientError", first.code)
    ELSE IF first.kind = "llm_client_error"
    THEN IF second.kind = "result" THEN BuildAggregateResult(second, source_title, slug)
         ELSE IF second.kind = "llm_client_error"
         THEN AggStageError(second.message, "llm_parse", FALSE, "LLMClientError", second.code)
         ELSE WrapAnalyzeException(second)
    ELSE WrapAnalyzeException(first)

(* the calls of llm_client.analyze _analyze_with_model makes *)
ModelCalls(first, second) ==
    IF NeedsRepair(first) THEN <<Invocation(FALSE, first), Invocation(TRUE, second)>>
    ELSE <<Invocation(FALSE, first)>>

(* str(exc) of the exception _fetch_source_document raises *)
FetchExceptionMessage == Msg("urlopen error timed out", 23, 0, "timed out")

(* self._latest_analysis_failure after _run_analysis failed; code as in    *)
(* AggStageError                                                           *)
AnalysisFailure(analysis, error_message) ==
    [stage |-> analysis.stage, error_class |-> analysis.error_class, error_message |-> error_message,
     retryable |-> analysis.retryable, code |-> analysis.code]

(* AggregationService._run_analysis on an item: whether it returns True    *)
(* and the item after it; f is what _fetch_source_document does            *)
RunAnalysis(item, source, f, first, second) ==
    LET analysis ==
            IF f.raised
            THEN AggStageError(ExtractErrorMessage(FetchExceptionMessage,
                                                   Msg("fetching the source failed", 8, 0, "")),
                               "content_fetch", IsRetryableError(FetchExceptionMessage, "URLError"),
                               "URLError", "fetch_error")
            ELSE IF ~f.content
            THEN AggStageError(Msg("source content is empty", 11, 0, ""), "content_fetch", FALSE,
                               "ValueError", "empty_content")
            ELSE AnalyzeWithModel(first, second, f.title, source.slug)
        error_message == ExtractErrorMessage(analysis.message,
                                             Msg("aggregate analysis failed", 6, 0, ""))
        calls == IF f.raised \/ ~f.content THEN <<>> ELSE ModelCalls(first, second)
    IN  IF analysis.ok
        THEN [ok |-> TRUE, failure |-> None, calls |-> calls,
              row |-> [item EXCEPT !.title = TitleOrFallback(analysis.title, item.title),
                                   !.summary = Some(analysis.summary),
                                   !.tags = analysis.tags,
                                   !.status = "succeeded",
                                   !.error = None]]
        ELSE [ok |-> FALSE, failure |-> Some(AnalysisFailure(analysis, error_message)), calls |-> calls,
              row |-> [item EXCEPT !.status = "failed", !.error = Some(error_message)]]

(* the loop over the items goes on, or the loop over the sources does *)
NextItem(a) == IF Tail(a.queue) = <<>> THEN NextSource(a) ELSE [a EXCEPT !.queue = Tail(@)]

(* an item that _should_run_analysis turns down *)
AggSkipItem ==
    /\ agg.pc = "analyze"
    /\ ~ShouldRunAnalysis(items[Head(agg.queue)])
    /\ agg' = NextItem(agg)
    /\ UNCHANGED <<notebook, fetched, sources, items, feeds>>

(* one iteration of the loop over the items: _run_analysis and the count *)
AggRunAnalysis(f, first, second) ==
    LET item_id == Head(agg.queue)
        run == RunAnalysis(items[item_id], sources[Head(agg.todo)], f, first, second)
    IN  /\ agg.pc = "analyze"
        /\ ShouldRunAnalysis(items[item_id])
        /\ fetched' = fetched \cup {items[item_id].source_url}
        /\ items' = [items EXCEPT ![item_id] = run.row]
        /\ agg' = IF run.ok
                  THEN NextItem([agg EXCEPT !.refreshed = @ + 1, !.latest = run.failure,
                                            !.calls = run.calls])
                  ELSE NextItem([agg EXCEPT !.failed = @ + 1, !.failures = RecordRefreshFailure(@),
                                            !.latest = run.failure, !.calls = run.calls])
        /\ UNCHANGED <<notebook, sources, feeds>>

(* self.db.commit() and the response of _refresh_sources *)
AggEnd ==
    /\ agg.pc = "commit"
    /\ agg' = [IdleAgg EXCEPT !.runs = agg.runs + 1]

AggCommit ==
    /\ AggEnd
    /\ UNCHANGED <<notebook, fetched, sources, items, feeds>>

(* AggregationService.reanalyze_single_item on an item that is not         *)
(* running; a missing item is an error and a running item a False without  *)
(* effect                                                                  *)
ReanalyzeSingleItem(item_id, f, first, second) ==
    LET pending == [items[item_id] EXCEPT !.status = "pending", !.error = None]
        run == RunAnalysis(pending, sources[items[item_id].source], f, first, second)
    IN  /\ item_id \in ItemIds
        /\ ~sources[items[item_id].source].deleted
        /\ items[item_id].status # "running"
        /\ fetched' = fetched \cup {items[item_id].source_url}
        /\ items' = [items EXCEPT ![item_id] = run.row]
        /\ UNCHANGED <<notebook, sources, feeds, agg>>

----------------------------------------------------------------------------
(* Functions called by themselves, on arguments of every kind *)

(* the call has returned *)
CallReturn ==
    /\ call # NoCall
    /\ call' = NoCall
    /\ UNCHANGED <<notes, summaries, tasks, reqs, redis, fetched, passed, served, ended, llm,
                   aggregation, job>>

(* the length of self._refresh_failures after _record_refresh_failure has  *)
(* been called n times on a list of the length held                        *)
RECURSIVE RecordTimes(_, _)
RecordTimes(held, n) == IF n = 0 THEN held ELSE RecordRefreshFailure(RecordTimes(held, n - 1))

(* AggregationService._record_refresh_failure called n times in a row on a *)
(* list that holds held failures                                           *)
RecordFailuresCall(held, n) ==
    /\ call = NoCall
    /\ call' = [fn |-> "record_refresh_failure", held |-> held, times |-> n,
                failures |-> RecordTimes(held, n)]
    /\ UNCHANGED <<notes, summaries, tasks, reqs, redis, fetched, passed, served, ended, llm,
                   aggregation, job>>

(* _refresh_sources lines 250-254 for one item: whether _run_analysis is   *)
(* called and the item after it                                            *)
RefreshItem(item, source, f, first, second) ==
    IF ~ShouldRunAnalysis(item) THEN [analyzed |-> FALSE, row |-> item]
    ELSE [analyzed |-> TRUE, row |-> RunAnalysis(item, source, f, first, second).row]

(* AggregationService.reanalyze_single_item on an item that exists: what   *)
(* it returns and the item after it                                        *)
ReanalyzeItem(item, source, f, first, second) ==
    IF item.status = "running" THEN [returned |-> FALSE, row |-> item]
    ELSE [returned |-> TRUE,
          row |-> RunAnalysis([item EXCEPT !.status = "pending", !.error = None],
                              source, f, first, second).row]

(* one iteration of the loop over the items of _refresh_sources, on an     *)
(* item of any status                                                      *)
RefreshItemCall(item, source, f, first, second) ==
    /\ call = NoCall
    /\ call' = [fn |-> "refresh_item", item |-> item,
                result |-> RefreshItem(item, source, f, first, second)]
    /\ UNCHANGED <<notes, summaries, tasks, reqs, redis, fetched, passed, served, ended, llm,
                   aggregation, job>>

(* AggregationService.reanalyze_single_item called on an item of any       *)
(* status                                                                  *)
ReanalyzeItemCall(item, source, f, first, second) ==
    /\ call = NoCall
    /\ call' = [fn |-> "reanalyze_single_item", item |-> item,
                result |-> ReanalyzeItem(item, source, f, first, second)]
    /\ UNCHANGED <<notes, summaries, tasks, reqs, redis, fetched, passed, served, ended, llm,
                   aggregation, job>>

(* NoteService._normalize_source_url called on one URL *)
NoteNormalizeCall(raw_url) ==
    /\ call = NoCall
    /\ call' = [fn |-> "note_normalize_source_url", raw_url |-> raw_url,
                result |-> NoteNormalizeSourceUrl(raw_url)]
    /\ UNCHANGED <<notes, summaries, tasks, reqs, redis, fetched, passed, served, ended, llm,
                   aggregation, job>>

(* AggregationService._normalize_source_url called on one URL *)
AggNormalizeCall(raw_url) ==
    /\ call = NoCall
    /\ call' = [fn |-> "agg_normalize_source_url", raw_url |-> raw_url,
                result |-> AggNormalizeSourceUrl(raw_url)]
    /\ UNCHANGED <<notes, summaries, tasks, reqs, redis, fetched, passed, served, ended, llm,
                   aggregation, job>>

(* _collect_feed_entries(source) on the feed entries raw_entries; the      *)
(* empty list stands for the ValueError raised when no entry is usable     *)
CollectCall(source, raw_entries) ==
    /\ call = NoCall
    /\ call' = [fn |-> "collect_feed_entries", source |-> source, raw_entries |-> raw_entries,
                entries |-> CollectFeedEntries(source, raw_entries, <<>>)]
    /\ UNCHANGED <<notes, summaries, tasks, reqs, redis, fetched, passed, served, ended, llm,
                   aggregation, job>>

----------------------------------------------------------------------------
(* The refresh job: POST /admin/aggregates/refresh saves a job record      *)
(* under a key with a time to live and queues                              *)
(* run_aggregation_refresh_job, which runs the refresh and writes the      *)
(* job's progress to the record; GET /admin/aggregates/refresh/{job_id}    *)
(* reads the record.                                                       *)

(* the payload enqueue_aggregation_refresh_job saves, which is also what   *)
(* run_aggregation_refresh_job starts from when the record is gone         *)
QueuedPayload ==
    [status |-> "queued", started_at |-> None, finished_at |-> None, error_message |-> None,
     total_sources |-> None, refreshed_items |-> None, failed_items |-> None, failures |-> 0]

(* _save_refresh_job: redis.setex(key, ttl, json.dumps(payload)) *)
SaveRefreshJob(payload) == Some(payload)

(* AdminService.enqueue_aggregate_refresh with the task the endpoint adds; *)
(* source_id 0 stands for no source_id (scope "all"); a missing source is  *)
(* a 404 without effect                                                    *)
EnqueueAggregateRefresh(source_id) ==
    /\ job.pc \in {"none", "done"}
    /\ job.id < MaxRefreshes
    /\ source_id = 0 \/ (source_id \in SourceIds /\ ~sources[source_id].deleted)
    /\ job' = [NoJob EXCEPT !.id = job.id + 1, !.pc = "queued", !.scope = source_id,
                            !.rec = SaveRefreshJob(QueuedPayload)]
    /\ UNCHANGED <<records, fetched, aggregation>>

(* run_aggregation_refresh_job lines 1055-1070: the record is read (or     *)
(* made anew) and saved as running                                         *)
JobMarkRunning ==
    LET payload == [(IF job.rec # None THEN job.rec[1] ELSE QueuedPayload) EXCEPT
                       !.status = "running", !.started_at = Some("now"), !.finished_at = None,
                       !.error_message = None, !.failures = 0]
    IN  /\ job.pc = "queued"
        /\ job' = [job EXCEPT !.pc = "running", !.payload = Some(payload),
                              !.rec = SaveRefreshJob(payload)]
        /\ UNCHANGED <<records, fetched, aggregation>>

(* an except branch that records the failure without the time it ended *)
FailedPayloadUnfinished(payload) ==
    [payload EXCEPT !.status = "failed", !.error_message = Some("aggregation refresh failed")]

(* run_aggregation_refresh_job lines 1088-1092: the payload of the except  *)
(* branch                                                                  *)
FailedPayload(payload) ==
    [payload EXCEPT !.status = "failed", !.error_message = Some("aggregation refresh failed"),
                    !.finished_at = Some("now")]

(* a payload that is failed whenever no item was refreshed *)
FinishedPayloadNothingRefreshed(payload, total_sources, refreshed_items, failed_items, failures) ==
    [payload EXCEPT !.status = IF refreshed_items = 0 THEN "failed" ELSE "succeeded",
                    !.total_sources = Some(total_sources),
                    !.refreshed_items = Some(refreshed_items),
                    !.failed_items = Some(failed_items),
                    !.error_message = IF refreshed_items = 0 THEN Some("all items failed") ELSE None,
                    !.failures = failures,
                    !.finished_at = Some("now")]

(* run_aggregation_refresh_job lines 1084-1087: the payload after the      *)
(* refresh has returned its response                                       *)
FinishedPayload(payload, total_sources, refreshed_items, failed_items, failures) ==
    LET all_items_failed == refreshed_items = 0 /\ failed_items > 0
    IN  [payload EXCEPT !.status = IF all_items_failed THEN "failed" ELSE "succeeded",
                        !.total_sources = Some(total_sources),
                        !.refreshed_items = Some(refreshed_items),
                        !.failed_items = Some(failed_items),
                        !.error_message = IF all_items_failed THEN Some("all items failed") ELSE None,
                        !.failures = failures,
                        !.finished_at = Some("now")]

(* service.ensure_preset_sources() raises (the configuration of the preset *)
(* sources cannot be read): the except branch                              *)
JobRaise ==
    /\ job.pc = "running"
    /\ job' = [job EXCEPT !.pc = "done", !.payload = Some(FailedPayload(job.payload[1])),
                          !.rec = SaveRefreshJob(FailedPayload(job.payload[1]))]
    /\ UNCHANGED <<records, fetched, aggregation>>

(* run_aggregation_refresh_job lines 1076-1079: refresh_single_source or   *)
(* refresh_active_items is called                                          *)
JobRefresh ==
    LET todo == IF job.scope = 0 THEN ActiveBySlug(SlugOrder) ELSE <<job.scope>>
    IN  /\ job.pc = "running"
        /\ AggBegin(todo)
        /\ job' = [job EXCEPT !.pc = "refreshing", !.total = Len(todo)]
        /\ UNCHANGED <<records, fetched, sources, items, feeds>>

(* the refresh commits and returns; run_aggregation_refresh_job lines      *)
(* 1080-1087 save its outcome                                              *)
JobFinish ==
    LET payload == FinishedPayload(job.payload[1], job.total, agg.refreshed, agg.failed, agg.failures)
    IN  /\ job.pc = "refreshing"
        /\ AggEnd
        /\ job' = [job EXCEPT !.pc = "done", !.payload = Some(payload), !.rec = SaveRefreshJob(payload)]
        /\ UNCHANGED <<records, fetched, sources, items, feeds>>

(* the time to live of the job's key runs out *)
JobExpire ==
    /\ job.rec # None
    /\ job' = [job EXCEPT !.rec = None]
    /\ UNCHANGED <<records, fetched, aggregation>>

(* get_aggregation_refresh_job as the polling endpoint answers it *)
PolledStatus(rec) == IF rec = None THEN "not_found" ELSE rec[1].status

(* GET /admin/aggregates/refresh/{job_id} for the job queued last *)
JobPoll ==
    /\ job.id > 0
    /\ job' = [job EXCEPT !.seen = PolledStatus(job.rec)]
    /\ UNCHANGED <<records, fetched, aggregation>>

----------------------------------------------------------------------------
(* The analysis job under all its outcomes: one user, requests handled one *)
(* at a time, background tasks running concurrently with them.             *)
Next ==
    \/ /\ served < MaxJobServed
       /\ \E user \in JobUsers, url \in JobUrls, tags \in PayloadTags : CreateArrive(1, user, url, tags)
    \/ /\ served < MaxJobServed
       /\ \E user \in JobUsers, note_id \in NoteIds : ReanalyzeArrive(1, user, note_id)
    \/ \E r \in ReqIds : RateCheck(r)
    \/ \E r \in ReqIds : CreateLookup(r)
    \/ \E r \in ReqIds : CreateInsert(r)
    \/ \E r \in ReqIds : Reanalyze(r)
    \/ \E r \in ReqIds : Respond(r)
    \/ \E user \in JobUsers, note_id \in NoteIds : DeleteNote(user, note_id)
    \/ \E note_id \in NoteIds : RestoreNote(note_id)
    \/ \E t \in TaskIds : TaskLoad(t)
    \/ \E t \in TaskIds : TaskMarkRunning(t)
    \/ \E t \in TaskIds, f \in FetchResults, api_key \in ApiKeySettings : TaskFetch(t, f, api_key)
    \/ \E t \in TaskIds, reply \in LLMReplies : TaskLLM(t, reply)
    \/ \E t \in TaskIds, reply \in LLMReplies : TaskRepair(t, reply)
    \/ \E t \in TaskIds : TaskSucceed(t)
    \/ \E t \in TaskIds, now_delta \in ClockDeltas : TaskFail(t, now_delta)

Spec == Init /\ [][Next]_vars

(* The request handlers under concurrency: two users, concurrent requests, *)
(* expiring rate limit counters, deletes and restores.  The tasks they     *)
(* queue are not run here: run_analysis_job writes analysis_status,        *)
(* analysis_error, source_title and tags_json of a note and appends        *)
(* summaries, and reads none of the counters.                              *)
NextReq ==
    \/ /\ served < MaxReqServed
       /\ \E r \in ReqIds, user \in Users, url \in NoteUrls, tags \in PayloadTags :
             CreateArrive(r, user, url, tags)
    \/ /\ served < MaxReqServed
       /\ \E r \in ReqIds, user \in Users, note_id \in NoteIds : ReanalyzeArrive(r, user, note_id)
    \/ \E r \in ReqIds : RateCheck(r)
    \/ \E key \in RateKeys : ExpireKey(key)
    \/ \E r \in ReqIds : CreateLookup(r)
    \/ \E r \in ReqIds : CreateInsert(r)
    \/ \E r \in ReqIds : Reanalyze(r)
    \/ \E r \in ReqIds : Respond(r)
    \/ \E user \in Users, note_id \in NoteIds : DeleteNote(user, note_id)
    \/ \E note_id \in NoteIds : RestoreNote(note_id)

SpecReq == Init /\ [][NextReq]_vars

(* One LLM client, called again and again under every setting *)
(* JSON objects the model may answer with *)
Output(source_language, cjk, title, title_zh, summary, summary_zh, tags, tags_zh) ==
    [source_language |-> source_language, cjk |-> cjk, title |-> title, title_zh |-> title_zh,
     summary_short |-> None, summary_long |-> None, summary |-> summary,
     summary_short_zh |-> None, summary_long_zh |-> None, summary_zh |-> summary_zh,
     tags |-> tags, tags_zh |-> tags_zh]

ModelOutputs ==
    { Output(source_language, cjk, title, title_zh, summary, summary_zh, tags, tags_zh) :
        source_language \in {"zh", "en", ""}, cjk \in {0, CjkThreshold},
        title \in {None, Some(Msg("title", 150, 1, ""))},
        title_zh \in {None, Some(Msg("title zh", 6, 0, ""))},
        summary \in {None, Some(Msg("summary", 250, 0, ""))},
        summary_zh \in {None, Some(Msg("summary zh", 80, 0, "")), Some(Msg("", 0, 3, ""))},
        tags \in {<<>>, <<"ai">>}, tags_zh \in {<<>>, <<"ai_zh">>} }
    \cup
    { [Output("zh", 0, None, None, None, None, <<"ai">>, <<>>)
          EXCEPT !.summary_short = short, !.summary_long = long] :
        short \in {None, Some(Msg("short", 40, 0, ""))}, long \in {None, Some(Msg("long", 350, 0, ""))} }

(* response bodies: every shape with one good output, and the object shape *)
(* with every output                                                       *)
ResponseBodies ==
    { Body(shape, Output("en", 0, None, None, Some(Msg("summary", 250, 0, "")),
                         Some(Msg("summary zh", 80, 0, "")), <<"ai">>, <<"ai_zh">>)) :
        shape \in {"not_object", "no_choices", "empty_text", "not_json", "usage_null"} }
    \cup { Body("object", output) : output \in ModelOutputs }

NextLLM ==
    \/ \E max_retries \in RetrySettings, fault \in ConfigFaults : LLMAnalyze(max_retries, fault)
    \/ \E outcome \in HttpOutcomes : LLMRequest(outcome)
    \/ \E response_data \in ResponseBodies : LLMParse(response_data)
    \/ LLMBackoff
    \/ LLMReturn

SpecLLM == Init /\ [][NextLLM]_vars

(* Hosts of every class _ensure_public_host tells apart, and hosts it lets *)
(* through                                                                 *)
UrlHosts ==
    { NameHost(<<"localhost">>, TRUE), NameHost(<<"printer", "local">>, FALSE),
      Ip4Host(127, 0, 0, 1), Ip4Host(10, 1, 2, 3), Ip4Host(192, 168, 1, 1),
      Ip4Host(169, 254, 169, 254), Ip4Host(224, 0, 0, 1), Ip4Host(240, 0, 0, 1), Ip4Host(0, 0, 0, 0),
      Ip6Host("loopback"), Ip6Host("link_local"), Ip6Host("multicast"), Ip6Host("unspecified"),
      Ip6Host("unique_local"),
      NameHost(<<"example", "com">>, TRUE), Ip4Host(93, 184, 216, 34), Ip6Host("global") }

(* one URL per host, submitted to POST /notes *)
WideNoteUrls == { Url("http", FALSE, h, 0, <<"x">>, FALSE, <<>>, FALSE) : h \in UrlHosts }

(* payloads of POST /admin/sources: a public site, a site of the local     *)
(* network, a site on the loopback address                                 *)
SourcePayloads ==
    { [slug |-> "blog", source_domain |-> NameHost(<<"example", "com">>, FALSE),
       feed_url |-> Url("https", FALSE, NameHost(<<"example", "com">>, FALSE), 0, <<"feed.xml">>, FALSE, <<>>, FALSE),
       homepage_url |-> Url("https", FALSE, NameHost(<<"example", "com">>, FALSE), 0, <<>>, TRUE, <<>>, FALSE),
       active |-> TRUE],
      [slug |-> "intranet", source_domain |-> NameHost(<<"corp", "local">>, TRUE),
       feed_url |-> Url("http", FALSE, NameHost(<<"wiki", "corp", "local">>, FALSE), 0, <<"rss">>, FALSE, <<>>, FALSE),
       homepage_url |-> Url("http", FALSE, NameHost(<<"corp", "local">>, FALSE), 0, <<>>, TRUE, <<>>, FALSE),
       active |-> TRUE],
      [slug |-> "loop", source_domain |-> Ip4Host(127, 0, 0, 1),
       feed_url |-> Url("http", FALSE, Ip4Host(127, 0, 0, 1), 0, <<"feed">>, FALSE, <<>>, FALSE),
       homepage_url |-> Url("http", FALSE, Ip4Host(127, 0, 0, 1), 0, <<>>, TRUE, <<>>, FALSE),
       active |-> TRUE] }

(* the links of the entries a fetched feed may hold *)
FeedLinks ==
    { Url("https", FALSE, NameHost(<<"example", "com">>, FALSE), 0, <<"a">>, FALSE, <<>>, FALSE),
      Url("http", FALSE, NameHost(<<"sub", "example", "com">>, TRUE), 80, <<"b">>, FALSE,
          <<KV("utm_source", "rss")>>, TRUE),
      Url("http", FALSE, NameHost(<<"wiki", "corp", "local">>, FALSE), 0, <<"page">>, FALSE, <<>>, FALSE),
      Url("http", FALSE, Ip4Host(127, 0, 0, 1), 0, <<"admin">>, FALSE, <<>>, FALSE) }

(* what _fetch_feed_xml and _parse_feed_entries can do: raise, or return   *)
(* the entries of the feed                                                 *)
FeedRaises == [raised |-> TRUE, entries |-> <<>>]
FeedOf(entries) == [raised |-> FALSE, entries |-> entries]

RawEntry(link) == [link |-> link, title |-> None]

UrlFeeds ==
    { FeedRaises }
    \cup { FeedOf(entries) :
             entries \in UNION { [1..n -> { RawEntry(link) : link \in FeedLinks }] : n \in 0..MaxFeedEntries } }

(* Private and local hosts on every way into the pipeline: notes submitted *)
(* for hosts of every class, feed sources registered by the administrator, *)
(* refreshes of their feeds, and the analysis of the notes and items       *)
(* created.                                                                *)
NextUrl ==
    \/ /\ served < MaxUrlServed
       /\ \E url \in WideNoteUrls : CreateArrive(1, "u1", url, <<>>)
    \/ \E r \in ReqIds : RateCheck(r)
    \/ \E r \in ReqIds : CreateLookup(r)
    \/ \E r \in ReqIds : CreateInsert(r)
    \/ \E r \in ReqIds : Respond(r)
    \/ \E t \in TaskIds : TaskLoad(t)
    \/ \E t \in TaskIds : TaskMarkRunning(t)
    \/ \E t \in TaskIds : TaskFetch(t, FetchOk, TRUE)
    \/ \E t \in TaskIds : TaskLLM(t, GoodResult)
    \/ \E t \in TaskIds : TaskSucceed(t)
    \/ \E payload \in SourcePayloads : AdminCreateSource(payload)
    \/ RefreshActiveItems
    \/ \E source_id \in SourceIds : RefreshSingleSource(source_id)
    \/ \E feed \in UrlFeeds : AggCollect(feed)
    \/ AggSkipItem
    \/ AggRunAnalysis(FetchOk, GoodResult, GoodResult)
    \/ AggCommit
    \/ \E item_id \in ItemIds : ReanalyzeSingleItem(item_id, FetchOk, GoodResult, GoodResult)

SpecUrl == Init /\ [][NextUrl]_vars

(* what LLMClient.analyze can do when the failures of a run are examined:  *)
(* a result, an output error, and the errors of the request loop           *)
FailReplies ==
    { GoodResult, InvalidOutput, LLMTimeout, LLMNetworkError, LLMHttpError(401), LLMHttpError(503),
      OtherException("TimeoutError", Msg("", 0, 0, "")) }

(* the feed of the public source with one entry *)
FailFeeds ==
    { FeedRaises,
      FeedOf(<<RawEntry(Url("https", FALSE, NameHost(<<"example", "com">>, FALSE), 0, <<"a">>, FALSE,
                            <<>>, FALSE))>>) }

FailPayloads == { payload \in SourcePayloads : payload.slug = "blog" }

(* Failing runs: one note and one feed source, analysed under every fetch  *)
(* result and every reply of the model in the first and in the repair call *)
NextFail ==
    \/ /\ served < MaxUrlServed
       /\ \E url \in JobUrls : CreateArrive(1, "u1", url, <<>>)
    \/ \E r \in ReqIds : RateCheck(r)
    \/ \E r \in ReqIds : CreateLookup(r)
    \/ \E r \in ReqIds : CreateInsert(r)
    \/ \E r \in ReqIds : Respond(r)
    \/ \E t \in TaskIds : TaskLoad(t)
    \/ \E t \in TaskIds : TaskMarkRunning(t)
    \/ \E t \in TaskIds, f \in FetchResults, api_key \in ApiKeySettings : TaskFetch(t, f, api_key)
    \/ \E t \in TaskIds, reply \in FailReplies : TaskLLM(t, reply)
    \/ \E t \in TaskIds, reply \in FailReplies : TaskRepair(t, reply)
    \/ \E t \in TaskIds : TaskSucceed(t)
    \/ \E t \in TaskIds, now_delta \in ClockDeltas : TaskFail(t, now_delta)
    \/ \E payload \in FailPayloads : AdminCreateSource(payload)
    \/ RefreshActiveItems
    \/ \E feed \in FailFeeds : AggCollect(feed)
    \/ AggSkipItem
    \/ \E f \in FetchResults, first, second \in FailReplies : AggRunAnalysis(f, first, second)
    \/ AggCommit

SpecFail == Init /\ [][NextFail]_vars

(* the sources of SourcePayloads as rows *)
PureSources ==
    { SourceRow(payload.slug, NormalizeSourceDomain(payload.source_domain)[1], payload.feed_url,
                payload.homepage_url, TRUE) : payload \in SourcePayloads }

(* links of feed entries: articles of the site and of a subdomain, the     *)
(* same article with tracking parameters and the default port, an image,   *)
(* another site, a loopback address, a script, a mail address, an ftp      *)
(* link, no link                                                           *)
PureLinks ==
    { Url("https", FALSE, NameHost(<<"example", "com">>, FALSE), 0, <<"a">>, FALSE, <<>>, FALSE),
      Url("https", FALSE, NameHost(<<"example", "com">>, TRUE), 443, <<"a">>, FALSE,
          <<KV("utm_source", "rss")>>, TRUE),
      Url("http", FALSE, NameHost(<<"sub", "example", "com">>, FALSE), 0, <<"b">>, FALSE, <<>>, FALSE),
      Url("https", FALSE, NameHost(<<"example", "com">>, FALSE), 0, <<"img", "logo.png">>, FALSE, <<>>, FALSE),
      Url("https", FALSE, NameHost(<<"notexample", "com">>, FALSE), 0, <<"c">>, FALSE, <<>>, FALSE),
      Url("http", FALSE, Ip4Host(127, 0, 0, 1), 0, <<"admin">>, FALSE, <<>>, FALSE),
      Url("javascript", FALSE, NoHost, 0, <<"void(0)">>, FALSE, <<>>, FALSE),
      Url("mailto", FALSE, NoHost, 0, <<"a@example.com">>, FALSE, <<>>, FALSE),
      Url("ftp", FALSE, NameHost(<<"example", "com">>, FALSE), 0, <<"d">>, FALSE, <<>>, FALSE),
      EmptyLink }

MaxPureEntries == 3

PureFeeds == UNION { [1..n -> { RawEntry(link) : link \in PureLinks }] : n \in 0..MaxPureEntries }

(* URLs handed to the normalizers: both schemes and one that is refused;   *)
(* a site in lower and upper case, a blacklisted site, a loopback address, *)
(* the article host and three of the video hosts; no port, the two default *)
(* ports and another one; paths of every branch; queries with tracking     *)
(* parameters, with the article parameters complete and incomplete, with a *)
(* valid and an invalid video id; with and without a fragment              *)
PureUrlHosts ==
    { NameHost(<<"example", "com">>, FALSE), NameHost(<<"example", "com">>, TRUE),
      NameHost(<<"www", "douyin", "com">>, FALSE), Ip4Host(127, 0, 0, 1),
      WECHAT_HOST, NameHost(<<"mp", "weixin", "qq", "com">>, TRUE),
      NameHost(<<"youtu", "be">>, FALSE), NameHost(<<"m", "youtube", "com">>, FALSE),
      NameHost(<<"www", "youtube", "com">>, TRUE) }

PureUrlPorts == {0, 80, 443, 8080}

PureUrlPaths ==
    { <<>>, <<"post">>, <<"s">>, <<"s", "abc">>, <<"watch">>, <<"dQw4w9WgXcQ">>,
      <<"shorts", "abc_DEF-12">>, <<"embed", "x">> }

PureUrlQueries ==
    { <<>>,
      <<KV("utm_source", "rss"), KV("id", "7"), KV("Ref", "home")>>,
      <<KV("page", "2"), KV("fbclid", "f1")>>,
      <<KV("sn", "s1"), KV("idx", "1"), KV("mid", "m1"), KV("__biz", "b1"), KV("scene", "4")>>,
      <<KV("__biz", "b1"), KV("mid", "m1"), KV("idx", "1")>>,
      <<KV("__biz", "b1"), KV("utm_medium", "social")>>,
      <<KV("v", "dQw4w9WgXcQ"), KV("t", "10")>>,
      <<KV("v", "x")>> }

PureUrls ==
    { Url(scheme, FALSE, host, port, segs, trail, query, frag) :
        scheme \in {"http", "https", "ftp"}, host \in PureUrlHosts, port \in PureUrlPorts,
        segs \in PureUrlPaths, trail \in BOOLEAN, query \in PureUrlQueries, frag \in BOOLEAN }

(* aggregate items of every status, without a summary, with a blank one   *)
(* and with a summary, and with the message of a failure or without        *)
PureItems ==
    { [ItemRow(1, link, link, link.host, None, "blog") EXCEPT
          !.status = status, !.summary = summary,
          !.error = IF status = "failed" THEN Some(Msg("aggregate analysis failed", 6, 0, "")) ELSE None] :
        link \in { Url("https", FALSE, NameHost(<<"example", "com">>, FALSE), 0, <<"a">>, TRUE,
                       <<>>, FALSE) },
        status \in ALLOWED_ANALYSIS_STATUS,
        summary \in { None, Some(Msg("", 0, 2, "")), Some(Msg("summary", 7, 0, "")) } }

(* The functions of the feed and URL handling, each called by itself *)
NextPure ==
    \/ /\ call = NoCall
       /\ \E source \in PureSources, raw_entries \in PureFeeds : CollectCall(source, raw_entries)
    \/ /\ call = NoCall
       /\ \E raw_url \in PureUrls : NoteNormalizeCall(raw_url)
    \/ /\ call = NoCall
       /\ \E raw_url \in PureUrls : AggNormalizeCall(raw_url)
    \/ /\ call = NoCall
       /\ \E item \in PureItems, source \in PureSources, f \in FetchResults, first \in FailReplies :
             RefreshItemCall(item, source, f, first, GoodResult)
    \/ /\ call = NoCall
       /\ \E item \in PureItems, source \in PureSources, f \in FetchResults, first \in FailReplies :
             ReanalyzeItemCall(item, source, f, first, GoodResult)
    \/ CallReturn

SpecPure == Init /\ [][NextPure]_vars

(* payloads of PATCH /admin/sources/{id}: the source moves to another      *)
(* site, or back                                                           *)
MovePayload(labels) ==
    [source_domain |-> Some(NameHost(labels, FALSE)),
     feed_url |-> Some(Url("https", FALSE, NameHost(labels, FALSE), 0, <<"feed.xml">>, FALSE, <<>>, FALSE)),
     homepage_url |-> Some(Url("https", FALSE, NameHost(labels, FALSE), 0, <<>>, TRUE, <<>>, FALSE)),
     is_active |-> None]

UpdatePayloads == { MovePayload(<<"other", "org">>), MovePayload(<<"example", "com">>) }

(* lengths of the list of failures of a refresh: empty, and at the cap or  *)
(* one below it; and the number of failures recorded next                  *)
FailuresHeld == {0, REFRESH_JOB_MAX_FAILURE_EVENTS - 1, REFRESH_JOB_MAX_FAILURE_EVENTS}

MaxRecorded == 2

(* Refresh jobs: sources are registered, jobs are queued for all sources   *)
(* or for one, run with feeds that fail or hold an entry and with items    *)
(* whose analysis succeeds or fails, while the record expires and is       *)
(* polled.                                                                 *)
NextJob ==
    \/ \E payload \in FailPayloads : AdminCreateSource(payload)
    \/ \E source_id \in SourceIds, payload \in UpdatePayloads : AdminUpdateSource(source_id, payload)
    \/ \E source_id \in SourceIds \cup {0} : EnqueueAggregateRefresh(source_id)
    \/ JobMarkRunning
    \/ JobRaise
    \/ JobRefresh
    \/ \E feed \in FailFeeds : AggCollect(feed)
    \/ AggSkipItem
    \/ \E f \in {FetchOk, FetchEmpty} : AggRunAnalysis(f, GoodResult, GoodResult)
    \/ JobFinish
    \/ JobExpire
    \/ JobPoll
    \/ \E held \in FailuresHeld, n \in 1..MaxRecorded : RecordFailuresCall(held, n)
    \/ CallReturn

SpecJob == Init /\ [][NextJob]_vars

(* The analysis job with a rate limit window that ends while runs are      *)
(* under way: one user, one URL, requests one at a time, fetches and model *)
(* calls that succeed                                                      *)
MaxStaleServed == 3

(* a result of the model with another title and other tags *)
RetitledResult == LLMResult(Some(Msg("other title", 11, 0, "")), "en", <<"other">>, <<"other_zh">>,
                            Msg("summary", 7, 0, ""))

NextStale ==
    \/ /\ served < MaxStaleServed
       /\ \E url \in JobUrls : CreateArrive(1, "u1", url, <<>>)
    \/ /\ served < MaxStaleServed
       /\ \E note_id \in NoteIds : ReanalyzeArrive(1, "u1", note_id)
    \/ \E r \in ReqIds : RateCheck(r)
    \/ \E key \in RateKeys : ExpireKey(key)
    \/ \E r \in ReqIds : CreateLookup(r)
    \/ \E r \in ReqIds : CreateInsert(r)
    \/ \E r \in ReqIds : Reanalyze(r)
    \/ \E r \in ReqIds : Respond(r)
    \/ \E t \in TaskIds : TaskLoad(t)
    \/ \E t \in TaskIds : TaskMarkRunning(t)
    \/ \E t \in TaskIds : TaskFetch(t, FetchOk, TRUE)
    \/ \E t \in TaskIds, reply \in {GoodResult, RetitledResult} : TaskLLM(t, reply)
    \/ \E t \in TaskIds : TaskSucceed(t)

SpecStale == Init /\ [][NextStale]_vars

----------------------------------------------------------------------------
(* Properties of the analysis job (Spec) *)

(* The step is taken by background task t *)
TaskStep(t) == tasks'[t] # tasks[t] /\ reqs' = reqs

(* The step in which task t stores the outcome of its run and returns *)
FinishStep(t) == tasks[t].pc = "finish" /\ tasks'[t] # tasks[t]

(* C1: run_analysis_job changes a note's analysis_status only along        *)
(* pending -> running, running -> succeeded and running -> failed, the     *)
(* status is always one of the four allowed values, and the job never      *)
(* moves a note that is succeeded or failed to another status.             *)
C1_StatusPath ==
    [][ \A t \in TaskIds : TaskStep(t) =>
          \A n \in NoteIds :
             /\ notes'[n].status \in ALLOWED_ANALYSIS_STATUS
             /\ notes'[n].status # notes[n].status =>
                   <<notes[n].status, notes'[n].status>> \in
                       { <<"pending", "running">>, <<"running", "succeeded">>, <<"running", "failed">> }
      ]_vars

(* C2: run_analysis_job called on an existing note that is running,        *)
(* succeeded or failed returns at once: the task has fetched nothing,      *)
(* called no model and committed nothing, and the note, the summaries and  *)
(* the set of fetched URLs are as before.                                  *)
C2_NonPendingNoOp ==
    [][ \A t \in TaskIds :
          ( /\ tasks[t].pc = "queued"
            /\ tasks'[t] # tasks[t]
            /\ GetById(tasks[t].note) # None
            /\ notes[tasks[t].note].status \in {"running", "succeeded", "failed"} )
          => /\ tasks'[t] = IdleTask
             /\ tasks[t].fetches = 0 /\ tasks[t].llm_calls = 0 /\ tasks[t].commits = 0
             /\ ended' = Ended(tasks[t].note, "skipped")
             /\ notes' = notes
             /\ summaries' = summaries
             /\ fetched' = fetched
      ]_vars

(* C2 witness: a call on a succeeded note has returned without effect *)
C2_Witness ==
    /\ ended.how = "skipped"
    /\ ended.note \in NoteIds
    /\ notes[ended.note].status = "succeeded"
    /\ Len(summaries) = 1

(* the tasks that are past the pending check of run_analysis_job for note n *)
ActiveRuns(n) == { t \in TaskIds : tasks[t].note = n /\ tasks[t].pc \in {"loaded", "fetch", "llm", "repair", "finish"} }

(* C3: at most one analysis run is active per note at any time: of two     *)
(* run_analysis_job tasks for the same pending note at most one goes past  *)
(* the pending check to fetch the source and call the model.               *)
C3_OneActiveRun == \A n \in NoteIds : Cardinality(ActiveRuns(n)) <= 1

(* C3: two runs of one note are about to store their outcomes *)
C3_TwoRunsFinishing ==
    \E t1, t2 \in TaskIds :
       /\ t1 # t2
       /\ tasks[t1].pc = "finish" /\ tasks[t2].pc = "finish"
       /\ tasks[t1].note = tasks[t2].note
       /\ tasks[t1].fetches = 1 /\ tasks[t2].fetches = 1
       /\ tasks[t1].llm_calls >= 1 /\ tasks[t2].llm_calls >= 1

(* C4: a run that has set its note to running ends with the note in        *)
(* succeeded or failed, never leaving it in running.                       *)
C4_RunEndsTerminal ==
    [][ \A t \in TaskIds : FinishStep(t) => notes'[tasks[t].note].status \in {"succeeded", "failed"} ]_vars

(* C4: a note that is not deleted is running while no task is queued or   *)
(* running and no request is being handled                                 *)
C4_StuckRunning ==
    /\ \E n \in NoteIds : notes[n].status = "running" /\ ~notes[n].deleted
    /\ \A t \in TaskIds : tasks[t].pc = "idle"
    /\ \A r \in ReqIds : reqs[r].pc = "idle"
    /\ ended.how = "vanished"

(* C5: when a run fails, the note's analysis_error and the error_message   *)
(* of the failed summary row written for the run are the same string of at *)
(* most 500 characters, and the row has the error code, stage, exception   *)
(* class, retryable flag and elapsed milliseconds, none of them absent.    *)
C5_FailureRecorded ==
    [][ \A t \in TaskIds :
          (FinishStep(t) /\ notes'[tasks[t].note].status = "failed" /\ ended'.how = "failed")
          => LET n == tasks[t].note
                 row == summaries'[Len(summaries')]
             IN  /\ Len(summaries') = Len(summaries) + 1
                 /\ row.note_id = n
                 /\ row.status = "failed"
                 /\ notes'[n].error # None
                 /\ row.error_message = notes'[n].error
                 /\ row.error_message[1].len <= 500
                 /\ row.error_message[1].len > 0
                 /\ row.error_code # None /\ row.error_code[1] # ""
                 /\ row.error_stage # None /\ row.error_stage[1] # ""
                 /\ row.error_class # None /\ row.error_class[1] # ""
                 /\ row.retryable # None /\ row.retryable[1] \in BOOLEAN
                 /\ row.elapsed_ms # None /\ row.elapsed_ms[1] >= 0
      ]_vars

(* C5 witness: a run has failed with a message that was cut to 500 characters *)
C5_Witness ==
    /\ ended.how = "failed"
    /\ \E n \in NoteIds :
          /\ notes[n].status = "failed"
          /\ notes[n].error = Some(Msg("x", 500, 0, ""))
          /\ summaries[Len(summaries)].error_message = notes[n].error

(* C6: the summaries are append-only, one row per attempt: a step that     *)
(* takes a note from running to succeeded or failed appends exactly one    *)
(* row, for that note and with the note's new status, and no step changes  *)
(* or removes a row that exists.                                           *)
C6_AppendOnly ==
    [][ /\ Len(summaries') >= Len(summaries)
        /\ SubSeq(summaries', 1, Len(summaries)) = summaries
        /\ \A n \in NoteIds :
              (notes[n].status = "running" /\ notes'[n].status \in {"succeeded", "failed"})
              => /\ Len(summaries') = Len(summaries) + 1
                 /\ summaries'[Len(summaries')].note_id = n
                 /\ summaries'[Len(summaries')].status = notes'[n].status
      ]_vars

(* C6 witness: two attempts on one note, a failed one and then a succeeded one *)
C6_Witness ==
    /\ Len(summaries) = 2
    /\ summaries[1].note_id = summaries[2].note_id
    /\ summaries[1].status = "failed"
    /\ summaries[2].status = "succeeded"
    /\ notes[summaries[2].note_id].status = "succeeded"

----------------------------------------------------------------------------
(* Properties of the request handlers (SpecReq) *)

(* The step is taken by the request on worker r *)
ReqStep(r) == reqs'[r] # reqs[r]

(* the non-deleted notes of one user with one normalized URL, after the step *)
ActiveTwins(n) ==
    { m \in DOMAIN notes' : /\ ~notes'[m].deleted
                           /\ notes'[m].user = notes'[n].user
                           /\ notes'[m].normalized = notes'[n].normalized }

(* C7: after every step there is at most one non-deleted note per (user,   *)
(* normalized URL); a create_note that finds a non-deleted note of the     *)
(* user with the URL's normalized form answers with that note and          *)
(* created=false, adds no row, and its endpoint queues no task.            *)
C7_OneNotePerUrl ==
    [][ /\ \A n \in DOMAIN notes' : ~notes'[n].deleted => ActiveTwins(n) = {n}
        /\ \A r \in ReqIds :
              LET norm == NoteNormalizeSourceUrl(reqs[r].url)
                  existing == GetByUserAndNormalizedUrl(reqs[r].user, norm.normalized)
              IN  ( /\ reqs[r].pc = "passed" /\ reqs[r].kind = "create" /\ ReqStep(r)
                    /\ norm.ok /\ existing # {} )
                  => /\ reqs'[r].pc = "respond" /\ reqs'[r].code = 200
                     /\ ~reqs'[r].created
                     /\ reqs'[r].note \in existing
                     /\ notes' = notes
                     /\ tasks' = tasks
        /\ \A r \in ReqIds :
              ( /\ reqs[r].pc = "respond" /\ reqs[r].kind = "create" /\ ReqStep(r)
                /\ reqs[r].code = 200 /\ ~reqs[r].created )
              => notes' = notes /\ tasks' = tasks
      ]_vars

(* C7 witness: a note was deleted and created again, and a further create  *)
(* of the URL is answered with the second note and created=false           *)
C7_Witness ==
    \E r \in ReqIds, d \in NoteIds :
       /\ reqs[r].pc = "respond" /\ reqs[r].kind = "create"
       /\ reqs[r].code = 200 /\ ~reqs[r].created
       /\ reqs[r].note \in NoteIds /\ reqs[r].note # d
       /\ ~notes[reqs[r].note].deleted
       /\ notes[d].deleted
       /\ notes[d].user = notes[reqs[r].note].user
       /\ notes[d].normalized = notes[reqs[r].note].normalized
       /\ reqs[r].url # notes[reqs[r].note].source_url

(* C8: a create or reanalyze request whose count exceeds the limit is      *)
(* answered 429 and nothing else happens for it: no note is created or     *)
(* changed and no task is queued; in every window of a counter at most     *)
(* `limit` requests get past the check.                                    *)
C8_RateLimited ==
    [][ /\ \A key \in RateKeys, w \in 0..MaxWindows : passed'[key][w] <= RateLimit(key)
        /\ \A r \in ReqIds :
              ( /\ reqs[r].pc = "counted" /\ ReqStep(r)
                /\ reqs[r].count > RateLimit(<<reqs[r].kind, reqs[r].user>>) )
              => /\ reqs'[r].pc = "respond" /\ reqs'[r].code = 429
                 /\ passed' = passed
                 /\ notes' = notes /\ summaries' = summaries /\ tasks' = tasks
        /\ \A r \in ReqIds :
              (reqs[r].pc = "respond" /\ reqs[r].code = 429 /\ ReqStep(r))
              => /\ reqs'[r] = IdleReq
                 /\ notes' = notes /\ summaries' = summaries /\ tasks' = tasks
      ]_vars

(* C8 witness: in one window the limit of reanalyze requests has passed    *)
(* and a further one is rejected with 429                                  *)
C8_Witness ==
    \E r \in ReqIds :
       /\ reqs[r].pc = "respond" /\ reqs[r].code = 429 /\ reqs[r].kind = "reanalyze"
       /\ reqs[r].note \in NoteIds /\ notes[reqs[r].note].user = reqs[r].user
       /\ passed[<<"reanalyze", reqs[r].user>>][reqs[r].win] = note_reanalyze_limit_per_10m
       /\ reqs[r].count = note_reanalyze_limit_per_10m + 1

----------------------------------------------------------------------------
(* Properties of the LLM client's request loop (SpecLLM) *)

(* the failures after which the loop may go on to another request *)
TransientFailure(outcome) ==
    \/ outcome.kind = "http" /\ outcome.status \in {429, 500, 502, 503, 504}
    \/ outcome.kind \in {"url", "timeout"}

(* the step issues an HTTP request *)
IssuesRequest == llm'.requests = llm.requests + 1

(* C10: one analyze call issues at most max(1, llm_max_retries) HTTP       *)
(* requests; a request after the first is issued only when the one before  *)
(* failed with a transient HTTP status, a timeout or a network error; a    *)
(* non-transient HTTP error or a body that is not JSON ends the call in    *)
(* that step, and a call that has ended issues no request.                 *)
C10_RequestBudget ==
    [][ /\ llm'.requests <= Max(1, llm'.max_retries)
        /\ (IssuesRequest /\ llm.requests >= 1) => TransientFailure(llm.last)
        /\ ( /\ IssuesRequest
             /\ \/ llm'.last.kind = "http" /\ llm'.last.status \notin {429, 500, 502, 503, 504}
                \/ llm'.last.kind = "bad_json" )
           => /\ llm'.pc = "done"
              /\ llm'.result = IF llm'.last.kind = "http" THEN "llm_http_error" ELSE "llm_invalid_response"
        /\ llm.pc = "done" => llm' = IdleLLM
      ]_vars

(* C10 witness: with llm_max_retries = 3 the third request follows a 503   *)
(* and a timeout and is answered 404, which ends the call                  *)
C10_Witness ==
    /\ llm.pc = "done"
    /\ llm.max_retries = 3
    /\ llm.requests = 3
    /\ llm.slept = <<1, 2>>
    /\ llm.last = HttpOutcome("http", 404)
    /\ llm.result = "llm_http_error"

----------------------------------------------------------------------------
(* Properties of the URL guard (SpecUrl) *)

(* the hosts C9 names: localhost, a name ending in .local, a literal       *)
(* private, loopback, link-local, multicast, reserved or unspecified       *)
(* address, in any letter case                                             *)
LocalOrPrivateHost(h) ==
    LET host == LowerHost(h)
    IN  \/ host.kind = "name" /\ host.labels = <<"localhost">>
        \/ host.kind = "name" /\ Len(host.labels) >= 2 /\ host.labels[Len(host.labels)] = "local"
        \/ host.kind \in {"ip4", "ip6"} /\ IpIsNonPublic(host)

----------------------------------------------------------------------------
(* Properties of the failure diagnostics *)

TransportCodes == {"llm_http_error", "llm_network_error", "llm_timeout"}

(* C11: a run that finally fails with a transport error code               *)
(* (llm_http_error, llm_network_error, llm_timeout) is recorded with       *)
(* retryable = true, in the summary row of a note and in the failure       *)
(* record of an aggregate item alike.                                      *)
C11_TransportRetryable ==
    /\ \A i \in 1..Len(summaries) :
          summaries[i].status = "failed" /\ summaries[i].error_code[1] \in TransportCodes
             => summaries[i].retryable = Some(TRUE)
    /\ agg.latest # None /\ agg.latest[1].code \in TransportCodes => agg.latest[1].retryable

(* a refresh has recorded the failure of an item whose analysis ended with *)
(* a timeout of the model request, and a note has failed the same way      *)
C11_Witness ==
    /\ agg.latest # None /\ agg.latest[1].code = "llm_timeout"
    /\ \E i \in 1..Len(summaries) :
          summaries[i].status = "failed" /\ summaries[i].error_code = Some("llm_timeout")

ContentCodes == {"source_unreachable", "empty_content"}

(* C12: a fetch error or empty fetched content ends the run as a failure   *)
(* of stage content_fetch, and the failure for empty content is recorded   *)
(* with retryable = false; for a note the run has then made no call of the *)
(* model, and the same holds for the failure record of an aggregate item.  *)
C12_ContentFetchFailure ==
    /\ \A t \in TaskIds :
          /\ tasks[t].pc = "finish"
          /\ tasks[t].llm_calls = 0
          /\ tasks[t].outcome.code # "llm_not_configured"
          => tasks[t].outcome.kind = "analysis_error" /\ tasks[t].outcome.code \in ContentCodes
    /\ \A i \in 1..Len(summaries) :
          summaries[i].status = "failed" /\ summaries[i].error_code[1] \in ContentCodes
             => /\ summaries[i].error_stage = Some("content_fetch")
                /\ summaries[i].error_code = Some("empty_content") => summaries[i].retryable = Some(FALSE)
    /\ agg.latest # None /\ agg.latest[1].code \in {"fetch_error", "empty_content"}
          => /\ agg.latest[1].stage = "content_fetch"
             /\ agg.latest[1].code = "empty_content" => ~agg.latest[1].retryable

(* empty content is on record for a note, and the refresh has just         *)
(* recorded a fetch error for an item                                      *)
C12_Witness ==
    /\ \E i \in 1..Len(summaries) :
          summaries[i].status = "failed" /\ summaries[i].error_code = Some("empty_content")
    /\ agg.latest # None /\ agg.latest[1].code = "fetch_error"

----------------------------------------------------------------------------
(* Properties of the results of the LLM client *)

StableCodes ==
    {"llm_not_configured", "llm_provider_not_supported", "llm_http_error", "llm_network_error",
     "llm_timeout", "llm_invalid_response", "invalid_output"}

(* C13: every error LLMClient.analyze raises, under every configuration    *)
(* and for every response of the provider, carries one of the codes        *)
(* llm_not_configured, llm_provider_not_supported, llm_http_error,         *)
(* llm_network_error, llm_timeout, llm_invalid_response, invalid_output.   *)
C13_StableCodes == llm.pc = "done" /\ llm.result # "ok" => llm.result \in StableCodes

(* a call has ended with an error that is no LLMClientError, and one with  *)
(* a code outside the list                                                 *)
C13_Witness ==
    /\ llm.pc = "done"
    /\ llm.result = "exception"
    /\ llm.body.shape = "not_object"

(* a field of the model's answer that is absent or blank *)
MissingText(opt) == opt = None \/ opt[1].len = 0

ZhSummaryMissing(output) ==
    /\ MissingText(output.summary_zh)
    /\ MissingText(output.summary_short_zh)
    /\ MissingText(output.summary_long_zh)

(* C20: in the parsing of the model's answer, when the source language is  *)
(* zh every missing zh field (title, summaries, tags) takes the value of   *)
(* the original field and no missing zh field makes the parsing fail; when *)
(* the source language is non-zh a missing zh summary or missing zh tags   *)
(* make the parsing fail with invalid_output.                              *)
C20_ZhFallback ==
    llm.pc = "done" /\ llm.body.shape = "object" =>
        LET output == llm.body.output
            source_language == NormalizeLanguage(output.source_language, output.cjk)
            result == llm.parsed[1]
        IN  /\ source_language = "zh" /\ result.kind = "analysis_result" =>
                  /\ result.source_language = "zh"
                  /\ MissingText(output.title_zh) => result.title_zh = result.title
                  /\ ZhSummaryMissing(output) =>
                        /\ result.summary_short_zh = result.summary_short
                        /\ result.summary_long_zh = result.summary_long
                  /\ output.tags_zh = <<>> => result.tags_zh = result.tags
            /\ source_language = "zh" /\ result.kind # "analysis_result" =>
                  \/ output.tags = <<>>
                  \/ /\ MissingText(output.summary) /\ MissingText(output.summary_short)
                     /\ MissingText(output.summary_long)
            /\ source_language = "non-zh" /\ (ZhSummaryMissing(output) \/ output.tags_zh = <<>>) =>
                  llm.result = "invalid_output"

(* an answer detected as zh by its characters, with a title, a summary and *)
(* tags and no zh field, has been parsed to a result                       *)
C20_Witness ==
    /\ llm.pc = "done"
    /\ llm.result = "ok"
    /\ llm.body.output.source_language = ""
    /\ llm.body.output.title # None
    /\ llm.body.output.title_zh = None
    /\ ZhSummaryMissing(llm.body.output)
    /\ llm.body.output.tags_zh = <<>>
    /\ llm.parsed[1].summary_long_zh # None
    /\ llm.parsed[1].tags_zh # <<>>

----------------------------------------------------------------------------
(* Properties of the refresh job *)

JobStatuses == {"queued", "running", "succeeded", "failed", "not_found"}

(* the steps a job's status may take, with not_found for a record that is  *)
(* absent                                                                  *)
JobMoves ==
    {<<"queued", "running">>, <<"running", "succeeded">>, <<"running", "failed">>,
     <<"not_found", "running">>, <<"not_found", "succeeded">>, <<"not_found", "failed">>}
    \cup { <<status, "not_found">> : status \in JobStatuses }

(* C14: the status of a refresh job only moves from queued to running to   *)
(* succeeded or failed (its record may expire in between): once            *)
(* run_aggregation_refresh_job has saved the record as running, it returns *)
(* with the record saved as succeeded or failed and finished_at set, also  *)
(* when the refresh raises, a record of a job that has returned stays as   *)
(* it is, and a poll answers queued, running, succeeded, failed or         *)
(* not_found.                                                              *)
C14_JobStatus ==
    [][ /\ job'.seen # "" => job'.seen \in JobStatuses
        /\ job'.id = job.id /\ PolledStatus(job'.rec) # PolledStatus(job.rec)
              => <<PolledStatus(job.rec), PolledStatus(job'.rec)>> \in JobMoves
        /\ job.pc \in {"running", "refreshing"} /\ job'.pc = "done"
              => /\ job'.rec # None
                 /\ job'.rec[1].status \in {"succeeded", "failed"}
                 /\ job'.rec[1].finished_at # None
        /\ job.pc = "done" /\ job'.pc = "done" /\ job'.rec # None => job'.rec = job.rec
      ]_vars

(* a job has raised before its refresh and has returned with the record    *)
(* saved as failed, and the poll has answered failed                       *)
C14_Witness ==
    /\ job.pc = "done"
    /\ job.payload[1].total_sources = None
    /\ job.rec # None /\ job.rec[1].status = "failed" /\ job.rec[1].finished_at # None
    /\ job.seen = "failed"

----------------------------------------------------------------------------
(* Properties of the feed and URL functions *)

(* the strictly increasing sequences of n indices of 1..m *)
Increasing(n, m) ==
    { f \in [1..n -> 1..m] : \A i, j \in 1..n : i < j => f[i] < f[j] }

(* C15: the entries _collect_feed_entries returns are a subsequence of the *)
(* feed's entries in feed order, each with the normalized form of its      *)
(* link; their URLs are pairwise distinct, on a host that is the source's  *)
(* domain or a subdomain of it, http or https, without an asset suffix;    *)
(* and there are at most max(1, aggregation_max_items_per_source) of them. *)
C15_CollectedEntries ==
    call.fn = "collect_feed_entries" =>
        LET raw == call.raw_entries
            out == call.entries
        IN  /\ \E f \in Increasing(Len(out), Len(raw)) :
                  \A k \in 1..Len(out) :
                     /\ AggNormalizeSourceUrl(raw[f[k]].link).ok
                     /\ out[k].source_url = AggNormalizeSourceUrl(raw[f[k]].link).normalized
                     /\ out[k].title = raw[f[k]].title
            /\ \A i, j \in 1..Len(out) : i # j => out[i].source_url # out[j].source_url
            /\ \A k \in 1..Len(out) :
                  /\ out[k].source_url.host.kind = "name"
                  /\ IsSuffix(call.source.domain.labels, out[k].source_url.host.labels)
                  /\ out[k].source_url.scheme \in {"http", "https"}
                  /\ out[k].source_url.segs # <<>> =>
                        out[k].source_url.segs[Len(out[k].source_url.segs)] # "logo.png"
            /\ Len(out) <= Max(1, aggregation_max_items_per_source)

(* a feed of three entries, the second being the first again with a        *)
(* tracking parameter, has given two entries                               *)
C15_Witness ==
    /\ call.fn = "collect_feed_entries"
    /\ Len(call.raw_entries) = 3
    /\ call.raw_entries[1].link # call.raw_entries[2].link
    /\ AggNormalizeSourceUrl(call.raw_entries[1].link).ok
    /\ AggNormalizeSourceUrl(call.raw_entries[2].link).ok
    /\ AggNormalizeSourceUrl(call.raw_entries[1].link).normalized
          = AggNormalizeSourceUrl(call.raw_entries[2].link).normalized
    /\ Len(call.entries) = 2
    /\ call.entries[2].source_url.host.labels = <<"sub", "example", "com">>

(* C16: in every reachable state, after any feed refreshes and any creates *)
(* and updates of sources by the administrator, the domain of every        *)
(* aggregate item is the domain of the source it is attached to or a       *)
(* subdomain of it.                                                        *)
C16_ItemDomainUnderSource ==
    \A i \in ItemIds :
        HostEndsWith(LowerHost(items[i].domain), LowerHost(sources[items[i].source].domain))

(* an item created by a refresh is attached to a source that has been      *)
(* updated since                                                           *)
C16_Witness ==
    \E i \in ItemIds :
        /\ items[i].domain.labels = <<"example", "com">>
        /\ sources[items[i].source].domain.labels = <<"other", "org">>

IsTrackingKey(k) == IsUtmKey(KeyLower(k)) \/ KeyLower(k) \in TRACKING_QUERY_KEYS

(* the parameters of a query that are not tracking parameters, in order *)
RemainingParameters(query) == SelectSeq(query, LAMBDA pair : ~IsTrackingKey(pair.k))

(* the host is one the normalizer of notes rewrites in a way of its own *)
HasPlatformCanonicalization(h) == LowerHost(h) \in ({WECHAT_HOST} \cup YOUTUBE_HOSTS)

(* the normalized URL has no tracking parameter, every other parameter of  *)
(* the URL, the host in lower case, and a port only when it is not the     *)
(* default of the scheme                                                   *)
GenericNormalized(raw_url, normalized) ==
    /\ \A i \in 1..Len(normalized.query) : ~IsTrackingKey(normalized.query[i].k)
    /\ normalized.query = RemainingParameters(raw_url.query)
    /\ normalized.host = LowerHost(raw_url.host)
    /\ normalized.port = IF raw_url.port = DEFAULT_PORTS(raw_url.scheme) THEN 0 ELSE raw_url.port

(* C18: every accepted URL on a host without a canonical form of its own   *)
(* is normalized to a URL without utm_* and denylisted parameters, with    *)
(* the remaining parameters, a lower-case host and no default port; for    *)
(* URLs submitted as notes and for links of feed entries                   *)
C18_GenericNormalization ==
    /\ ( /\ call.fn = "note_normalize_source_url" /\ call.result.ok
         /\ ~HasPlatformCanonicalization(call.raw_url.host) )
          => GenericNormalized(call.raw_url, call.result.normalized)
    /\ (call.fn = "agg_normalize_source_url" /\ call.result.ok)
          => GenericNormalized(call.raw_url, call.result.normalized)

(* the part of C18 about links of feed entries *)
FeedEntryNormalization ==
    (call.fn = "agg_normalize_source_url" /\ call.result.ok)
        => GenericNormalized(call.raw_url, call.result.normalized)

(* a note URL of an ordinary site with tracking parameters, an upper-case  *)
(* host and the default port was accepted                                  *)
C18_Witness ==
    /\ call.fn = "note_normalize_source_url" /\ call.result.ok
    /\ call.raw_url.host = NameHost(<<"example", "com">>, TRUE)
    /\ call.raw_url.port = DEFAULT_PORTS(call.raw_url.scheme)
    /\ \E i \in 1..Len(call.raw_url.query) : IsTrackingKey(call.raw_url.query[i].k)

(* the path of the URL names an article: /s/<key> *)
HasArticlePath(url) == Len(url.segs) >= 2 /\ url.segs[1] = "s"

(* the query of the URL names an article: /s with __biz, mid and idx *)
HasArticleParameters(url) ==
    /\ url.segs = <<"s">> /\ ~url.trail
    /\ \A key \in {"__biz", "mid", "idx"} : QueryGet(url.query, key) # ""

(* C19: for a URL on mp.weixin.qq.com the normalizer of notes rejects the  *)
(* request when the parameters that identify the article are absent; when  *)
(* they are present the normalized URL keeps the identifying path alone or *)
(* the identifying query parameters alone                                  *)
C19_WechatCanonical ==
    (call.fn = "note_normalize_source_url" /\ LowerHost(call.raw_url.host) = WECHAT_HOST) =>
        /\ ~(HasArticlePath(call.raw_url) \/ HasArticleParameters(call.raw_url))
              => ~call.result.ok
        /\ (call.result.ok /\ HasArticlePath(call.raw_url)) =>
              /\ call.result.normalized.segs = call.raw_url.segs
              /\ call.result.normalized.query = <<>>
        /\ (call.result.ok /\ HasArticleParameters(call.raw_url)) =>
              /\ call.result.normalized.segs = <<"s">>
              /\ \A i \in 1..Len(call.result.normalized.query) :
                    call.result.normalized.query[i].k \in {"__biz", "mid", "idx", "sn"}
              /\ \A key \in {"__biz", "mid", "idx", "sn"} :
                    QueryGet(call.result.normalized.query, key) = QueryGet(call.raw_url.query, key)

(* the part of C19 about URLs whose identifying parameters are present *)
WechatKeepsIdentifying ==
    ( /\ call.fn = "note_normalize_source_url" /\ LowerHost(call.raw_url.host) = WECHAT_HOST
      /\ HasArticlePath(call.raw_url) \/ HasArticleParameters(call.raw_url) )
        => C19_WechatCanonical

(* an article URL with __biz alone was accepted *)
C19_Witness ==
    /\ call.fn = "note_normalize_source_url" /\ call.result.ok
    /\ LowerHost(call.raw_url.host) = WECHAT_HOST
    /\ call.raw_url.segs = <<"s">>
    /\ QueryGet(call.raw_url.query, "__biz") # ""
    /\ QueryGet(call.raw_url.query, "mid") = ""

(* The step in which task t issues a source fetch or a model request *)
OutboundCall(t) == tasks'[t].fetches > tasks[t].fetches \/ tasks'[t].llm_calls > tasks[t].llm_calls

(* every run has committed the status running before its first outbound   *)
(* call                                                                    *)
RunningWrittenFirst ==
    [][ \A t \in TaskIds : OutboundCall(t) => tasks[t].commits >= 1 ]_vars

(* C21: in every analysis run the status is set to running before the      *)
(* first outbound call of the run: no source fetch and no model request is *)
(* issued for a note whose stored status is pending                        *)
C21_RunningBeforeCalls ==
    [][ \A t \in TaskIds : OutboundCall(t) =>
          /\ tasks[t].commits >= 1
          /\ notes[tasks[t].note].status # "pending" ]_vars

(* a run that has written running is about to fetch the source of a note   *)
(* that another run has finished and a reanalyze request has set to        *)
(* pending again                                                           *)
C21_Witness ==
    \E t \in TaskIds :
       /\ tasks[t].pc = "fetch" /\ tasks[t].commits = 1
       /\ notes[tasks[t].note].status = "pending"
       /\ Len(summaries) >= 1

(* the call of llm_client.analyze raised LLMClientError invalid_output *)
RaisedInvalidOutput(invocation) ==
    invocation.reply.kind = "llm_client_error" /\ invocation.reply.code = "invalid_output"

(* the calls of one run, as far as they have been made: at most two, the   *)
(* first without and the second with repair_mode, the second only after    *)
(* invalid_output of the first                                             *)
AtMostOneRepair(calls) ==
    /\ Len(calls) <= 2
    /\ Len(calls) >= 1 => ~calls[1].repair_mode
    /\ Len(calls) = 2 => calls[2].repair_mode /\ RaisedInvalidOutput(calls[1])

(* C22: within one analysis run llm_client.analyze is invoked at most      *)
(* twice; the second invocation is made if and only if the first raised    *)
(* invalid_output, it is made with repair_mode=true, and when it fails the  *)
(* run ends as failed without another invocation                           *)
C22_OneRepairCall ==
    /\ \A t \in TaskIds :
          /\ AtMostOneRepair(tasks[t].calls)
          /\ Len(tasks[t].calls) = tasks[t].llm_calls
          /\ (Len(tasks[t].calls) = 1 /\ RaisedInvalidOutput(tasks[t].calls[1]))
                => tasks[t].pc = "repair"
          /\ (Len(tasks[t].calls) = 1 /\ ~RaisedInvalidOutput(tasks[t].calls[1]))
                => tasks[t].pc = "finish"
          /\ Len(tasks[t].calls) = 2 => tasks[t].pc = "finish"
          /\ (Len(tasks[t].calls) = 2 /\ tasks[t].calls[2].reply.kind # "result")
                => tasks[t].outcome.kind \in {"analysis_error", "exception"}
    /\ AtMostOneRepair(agg.calls)
    /\ Len(agg.calls) = 1 => ~RaisedInvalidOutput(agg.calls[1])
    /\ (Len(agg.calls) = 2 /\ agg.calls[2].reply.kind # "result") => agg.latest # None

(* a run of a note and a run of an aggregate item have each made the       *)
(* repair call, and it failed                                              *)
C22_Witness ==
    /\ \E t \in TaskIds :
          /\ Len(tasks[t].calls) = 2
          /\ tasks[t].calls[2].reply.kind = "llm_client_error"
    /\ Len(agg.calls) = 2
    /\ agg.calls[2].reply.kind = "llm_client_error"
    /\ agg.latest # None

(* the codes an LLMClientError carries *)
LLMErrorCodes ==
    { "invalid_output", "llm_timeout", "llm_network_error", "llm_http_error", "llm_request_failed",
      "llm_not_configured", "llm_provider_not_supported", "llm_model_not_configured" }

(* the stage of a failure in the LLM step by the code of the final error *)
StageOfCode(code) == IF code = "invalid_output" THEN "llm_parse" ELSE "llm_request"

(* the rule of C23 on the failed runs of notes *)
NoteLLMStage ==
    \A i \in 1..Len(summaries) :
       summaries[i].status = "failed" /\ summaries[i].error_code[1] \in LLMErrorCodes
          => summaries[i].error_stage = Some(StageOfCode(summaries[i].error_code[1]))

(* C23: a run that fails in the LLM step is recorded with the stage        *)
(* llm_request when the code of the final error is not invalid_output and  *)
(* with llm_parse when it is invalid_output after the repair call; notes   *)
(* and aggregate items alike                                               *)
C23_LLMStage ==
    /\ NoteLLMStage
    /\ (agg.latest # None /\ agg.latest[1].code \in LLMErrorCodes)
          => agg.latest[1].stage = StageOfCode(agg.latest[1].code)

(* the repair call of an aggregate item ended with a timeout, and a note   *)
(* failed with invalid_output after its repair call                        *)
C23_Witness ==
    /\ Len(agg.calls) = 2 /\ agg.latest # None /\ agg.latest[1].code = "llm_timeout"
    /\ \E i \in 1..Len(summaries) :
          summaries[i].status = "failed" /\ summaries[i].error_code = Some("invalid_output")

(* The step in which task t stores the result of a successful run *)
SucceedStep(t) == FinishStep(t) /\ ended'.how = "succeeded"

(* a note that has a title keeps it when a run succeeds *)
NoteTitleKept ==
    [][ \A t \in TaskIds : (SucceedStep(t) /\ notes[tasks[t].note].title # None)
          => notes'[tasks[t].note].title = notes[tasks[t].note].title ]_vars

(* a note that has tags keeps them when a run succeeds *)
NoteTagsKept ==
    [][ \A t \in TaskIds : (SucceedStep(t) /\ notes[tasks[t].note].tags # <<>>)
          => notes'[tasks[t].note].tags = notes[tasks[t].note].tags ]_vars

(* The step in which a refresh stores the result of a successful run of    *)
(* aggregate item i                                                        *)
ItemSucceedStep(i) ==
    /\ agg.pc = "analyze" /\ Head(agg.queue) = i
    /\ agg'.refreshed = agg.refreshed + 1

(* C24: on a successful run the title and the tags are updated only if the *)
(* item had none: a note or an aggregate item that has a title keeps it,   *)
(* one that has tags keeps them                                            *)
C24_TitleAndTagsKept ==
    [][ /\ \A t \in TaskIds : SucceedStep(t) =>
             /\ notes[tasks[t].note].title # None
                   => notes'[tasks[t].note].title = notes[tasks[t].note].title
             /\ notes[tasks[t].note].tags # <<>>
                   => notes'[tasks[t].note].tags = notes[tasks[t].note].tags
        /\ \A i \in 1..Len(items) : ItemSucceedStep(i) =>
             /\ items[i].title # None => items'[i].title = items[i].title
             /\ items[i].tags # <<>> => items'[i].tags = items[i].tags
      ]_vars

(* an aggregate item with the title of its feed entry and the tag of its   *)
(* source has been analysed with success                                   *)
C24_Witness ==
    /\ agg.refreshed = 1
    /\ \E i \in 1..Len(items) :
          /\ items[i].status = "succeeded"
          /\ items[i].title = Some(Msg("model title", 11, 0, ""))
          /\ Len(items[i].tags) = 2

(* the counters of the refresh after a step that changes agg: a run of an  *)
(* item adds one to refreshed_items when the item is succeeded after it    *)
(* and one to failed_items when it is failed, a source whose feed failed   *)
(* or yielded no item adds one to failed_items, nothing else counts        *)
CountsFollowOutcomes ==
    LET i == Head(agg.queue)
        success == agg.pc = "analyze" /\ ShouldRunAnalysis(items[i]) /\ items'[i].status = "succeeded"
        failure ==
            \/ agg.pc = "analyze" /\ ShouldRunAnalysis(items[i]) /\ items'[i].status = "failed"
            \/ agg.pc = "source" /\ agg'.pc # "analyze"
    IN  /\ agg.pc = "analyze" /\ ShouldRunAnalysis(items[i])
              => items'[i].status \in {"succeeded", "failed"}
        /\ agg'.refreshed = agg.refreshed + (IF success THEN 1 ELSE 0)
        /\ agg'.failed = agg.failed + (IF failure THEN 1 ELSE 0)

(* C25: in a refresh job that completes, refreshed_items and failed_items  *)
(* are the numbers of successful and failed outcomes of the run, one per   *)
(* analysed item and one per source whose feed failed or yielded no item,  *)
(* and the list of failures holds one diagnostic per failure up to 120:    *)
(* its length is min(failed_items, 120)                                    *)
C25_JobCounts ==
    [][ /\ (agg.pc \in {"source", "analyze"} /\ agg' # agg) => CountsFollowOutcomes
        /\ agg'.failures = Min(agg'.failed, 120)
        /\ (job.pc = "refreshing" /\ job'.pc = "done") =>
              /\ job'.rec[1].refreshed_items = Some(agg.refreshed)
              /\ job'.rec[1].failed_items = Some(agg.failed)
              /\ job'.rec[1].failures = Min(agg.failed, 120)
        /\ call'.fn = "record_refresh_failure"
              => call'.failures = Min(call'.held + call'.times, 120)
      ]_vars

(* a job is done whose item failed, with the failure on record, and two    *)
(* more failures after 119 have left 120 diagnostics                       *)
C25_Witness ==
    /\ job.pc = "done" /\ job.rec # None
    /\ job.rec[1].refreshed_items = Some(0)
    /\ job.rec[1].failed_items = Some(1)
    /\ job.rec[1].failures = 1
    /\ \E i \in 1..Len(items) : items[i].status = "failed"
    /\ call.fn = "record_refresh_failure"
    /\ call.held = 119 /\ call.times = 2 /\ call.failures = 120

(* The step in which NoteService.reanalyze, past the rate limit, finds the *)
(* note of request r and returns                                           *)
ReanalyzeStep(r) ==
    /\ reqs[r].pc = "passed" /\ reqs[r].kind = "reanalyze"
    /\ reqs'[r].pc = "respond" /\ reqs'[r].code = 200

(* The step in which the endpoint answers the reanalyze request r *)
ReanalyzeRespondStep(r) ==
    /\ reqs[r].pc = "respond" /\ reqs[r].kind = "reanalyze"
    /\ reqs'[r].pc = "idle"

(* C26: reanalyze on a succeeded or failed note sets it to pending and     *)
(* clears analysis_error; on a pending or running note it changes nothing; *)
(* the endpoint queues an analysis task exactly when the status returned   *)
(* is pending, so a reanalyze of a running note starts no second run       *)
C26_Reanalyze ==
    [][ \A r \in ReqIds :
          /\ ReanalyzeStep(r) =>
                LET n == reqs[r].note
                IN  /\ notes[n].status \in {"succeeded", "failed"}
                          => notes' = [notes EXCEPT ![n].status = "pending", ![n].error = None]
                    /\ notes[n].status \in {"pending", "running"} => notes' = notes
                    /\ reqs'[r].status = notes'[n].status
                    /\ tasks' = tasks
          /\ ReanalyzeRespondStep(r) =>
                /\ tasks' # tasks <=> (reqs[r].code = 200 /\ reqs[r].status = "pending")
                /\ tasks' # tasks =>
                      \E t \in TaskIds :
                         /\ tasks[t].pc = "idle"
                         /\ tasks' = [tasks EXCEPT ![t] = QueuedTask(reqs[r].note)]
                /\ notes' = notes
      ]_vars

(* reanalyze has returned running for a note whose run is under way, and   *)
(* no other task is queued                                                 *)
C26_Witness ==
    \E r \in ReqIds, t \in TaskIds :
       /\ reqs[r].pc = "respond" /\ reqs[r].kind = "reanalyze"
       /\ reqs[r].code = 200 /\ reqs[r].status = "running"
       /\ tasks[t].note = reqs[r].note /\ tasks[t].pc \in {"fetch", "llm", "repair", "finish"}
       /\ \A u \in TaskIds \ {t} : tasks[u].pc = "idle"

(* the item has a summary text that is not blank *)
HasNonBlankSummary(item) == item.summary # None /\ item.summary[1].len > 0

(* C27: during a refresh an aggregate item in running is never analysed,   *)
(* an item in pending or failed is always analysed again, a succeeded item *)
(* only if it has no summary text that is not blank; reanalyze_single_item *)
(* on a running item returns false and leaves the item as it is            *)
C27_ShouldRunAnalysis ==
    /\ call.fn = "refresh_item" =>
          /\ call.item.status = "running" => ~call.result.analyzed /\ call.result.row = call.item
          /\ call.item.status \in {"pending", "failed"} =>
                call.result.analyzed /\ call.result.row.status \in {"succeeded", "failed"}
          /\ call.item.status = "succeeded" =>
                (call.result.analyzed <=> ~HasNonBlankSummary(call.item))
          /\ ~call.result.analyzed => call.result.row = call.item
    /\ (call.fn = "reanalyze_single_item" /\ call.item.status = "running") =>
          ~call.result.returned /\ call.result.row = call.item

(* reanalyze_single_item was called on a running item *)
C27_Witness ==
    /\ call.fn = "reanalyze_single_item"
    /\ call.item.status = "running"
    /\ ~call.result.returned

(* C28: a refresh job that completes without an exception ends failed if   *)
(* and only if refreshed_items is 0 and failed_items is greater than 0; in *)
(* every other case, a run with no sources or with no item needing         *)
(* analysis included, it ends succeeded                                    *)
C28_JobOutcome ==
    [][ (job.pc = "refreshing" /\ job'.pc = "done") =>
          /\ job'.rec[1].status \in {"failed", "succeeded"}
          /\ job'.rec[1].status = "failed" <=> (agg.refreshed = 0 /\ agg.failed > 0)
          /\ job'.rec[1].status = "failed" <=> job'.rec[1].error_message # None
      ]_vars

(* a job over a source whose item was succeeded already has ended          *)
(* succeeded with nothing refreshed and nothing failed                     *)
C28_Witness ==
    /\ job.pc = "done" /\ job.rec # None
    /\ job.rec[1].status = "succeeded"
    /\ job.rec[1].total_sources = Some(1)
    /\ job.rec[1].refreshed_items = Some(0)
    /\ job.rec[1].failed_items = Some(0)

(* The step of _refresh_sources in which the source at the head of the     *)
(* list yields nothing to analyse: its feed cannot be fetched or parsed,   *)
(* or no usable item comes of it                                           *)
SourceFailsStep == agg.pc = "source" /\ agg' # agg /\ agg'.pc # "analyze"

----------------------------------------------------------------------------
(* The rate limit counter and its expiry (SpecReq) *)

(* C30: every create or reanalyze request increments the counter of its    *)
(* key by one as it arrives, so that every request that gets a response    *)
(* (a 429, a deduplicated create, any other) has been counted; the expiry  *)
(* of a key is set only by a step of the request that observed the count   *)
(* 1; and whenever no request is between its INCR and the rest of          *)
(* _enforce_rate_limit, every counter key that exists has an expiry        *)
C30_RateCounter ==
    [][ /\ \A r \in ReqIds :
              (reqs[r].pc = "idle" /\ ReqStep(r))
              => LET key == <<reqs'[r].kind, reqs'[r].user>>
                 IN  /\ reqs'[r].pc = "counted"
                     /\ key \in RateKeys
                     /\ redis'[key].count = redis[key].count + 1
                     /\ reqs'[r].count = redis'[key].count
                     /\ \A other \in RateKeys \ {key} : redis'[other] = redis[other]
        /\ \A r \in ReqIds :
              (ReqStep(r) /\ reqs'[r].pc = "respond") => reqs'[r].count >= 1
        /\ \A key \in RateKeys :
              (redis'[key].ttl /\ ~redis[key].ttl)
              => \E r \in ReqIds :
                    /\ reqs[r].pc = "counted" /\ ReqStep(r)
                    /\ reqs[r].count = 1
                    /\ key = <<reqs[r].kind, reqs[r].user>>
        /\ (\A r \in ReqIds : reqs'[r].pc # "counted")
              => \A key \in RateKeys : redis'[key].count > 0 => redis'[key].ttl
      ]_vars

(* C30 witness: of three creates of one user, the second was deduplicated  *)
(* and the third rejected; both were counted, no rate limit check is       *)
(* under way and the key has its expiry                                    *)
C30_Witness ==
    \E a, b \in ReqIds, user \in Users :
       /\ \A r \in ReqIds : reqs[r].pc # "counted"
       /\ reqs[a].pc = "respond" /\ reqs[a].kind = "create" /\ reqs[a].user = user
       /\ reqs[a].code = 200 /\ ~reqs[a].created /\ reqs[a].count = 2
       /\ reqs[b].pc = "respond" /\ reqs[b].kind = "create" /\ reqs[b].user = user
       /\ reqs[b].code = 429 /\ reqs[b].count = 3
       /\ redis[<<"create", user>>].count = 3
       /\ redis[<<"create", user>>].ttl
====
